---- MODULE Spec2Model ----
(***************************************************************************)
(* The Raffle contract (contracts/Raffle.sol, both builds kept in the      *)
(* repository: the seed build with generateRandomSeed / drawWinners(proof) *)
(* and the index build with generateWinnerIndices / drawWinners(indices)), *)
(* modelled as one state machine.  Every external function is one action;  *)
(* it is enabled when the call succeeds.  A reverting call leaves every    *)
(* variable as it was, which is a stuttering step of the specification;    *)
(* its revert reason is the value of the function's ...Result operator in  *)
(* the state the call is made in.                                          *)
(*                                                                         *)
(* Token amounts are counted in units of 10^15 wei (5 ether = 5000 units), *)
(* time in seconds.                                                        *)
(***************************************************************************)
EXTENDS Integers, Sequences, FiniteSets, TLC

\* ------------------------------------------------------------ constants
POOL_DURATION == 300
ENTRY_FEE == 5000
WINNER_COUNT == 5
PROTOCOL_FEE_PERCENTAGE == 10
WINNER_SHARE_PERCENTAGE == 90

\* --------------------------------------------------------------- bounds
NumAddr == 6
MaxPoolId == 2
MaxEntries == 6
MaxTime == 750
TickStep == 150
MaxSeed == 1
HashSpace == 97

\* ------------------------------------------------------------ addresses
ZeroAddr == 0
Addr == 1..NumAddr
Owner == NumAddr + 1
Recipient1 == NumAddr + 2
Recipient2 == NumAddr + 3
Contract == NumAddr + 4
Recipients == {Recipient1, Recipient2}
Callers == Addr \cup {Owner}
Holders == Addr \cup {Owner, Contract} \cup Recipients

PoolIds == 0..MaxPoolId
SeedValues == 0..MaxSeed

OK == "ok"

VARIABLES
    variant,               \* which build is deployed: "seed" or "index"
    pools,                 \* mapping(uint256 => Pool)
    hasEnteredPool,        \* mapping(uint256 => mapping(address => bool))
    participantIndex,      \* mapping(uint256 => mapping(address => uint256))
    currentPoolId,
    protocolFeeRecipient,
    bal,                   \* MAZA balances (allowance to the contract included)
    now,                   \* block.timestamp
    feeLog,                \* per pool: the ProtocolFeeWithdrawn transfers, [to, amount]
    paid,                  \* per pool and address: sum of RewardClaimed transfers
    drawInput,             \* per pool: the operator-supplied value of the successful draw
    selection,             \* a call of _selectUniqueWinners: its inputs and what it returned
    isConnected,           \* App: wagmi's isConnected
    effectDep,             \* App: the isConnected the connection effect last ran with
    fhevmStatus,           \* App: 'idle' | 'loading' | 'ready' | 'error'
    inits,                 \* App: the initializeFhevm calls in flight, each at its await
    fheInstance,           \* fhevm.js: whether the module's fheInstance is set
    account,               \* FheRaffle: the connected wallet's address
    ethereum,              \* FheRaffle: whether ethereumProvider || window.ethereum is set
    flags,                 \* FheRaffle: isApproving, isEntering, isDrawingWinners, isClaiming
    toasts,                \* useToast: the toast list
    toastSeq,              \* useToast: how many toast ids were handed out
    run,                   \* FheRaffle: the handler invocation in progress and its locals
    issued,                \* the external calls the latest handleDrawWinners made
    uiCurrentPoolId,       \* FheRaffle: currentPoolId as last loaded
    hasEnteredCurrentPool  \* FheRaffle: as last loaded

storage == <<pools, hasEnteredPool, participantIndex, currentPoolId, protocolFeeRecipient>>
ledger == <<bal, feeLog, paid, drawInput>>
\* State outside the deployed contract's storage and the token ledger.
app == <<isConnected, effectDep, fhevmStatus, inits, fheInstance>>
raffle == <<account, ethereum, flags, toasts, toastSeq, run, issued,
            uiCurrentPoolId, hasEnteredCurrentPool>>
client == <<selection, app, raffle>>
vars == <<variant, pools, hasEnteredPool, participantIndex, currentPoolId,
          protocolFeeRecipient, bal, now, feeLog, paid, drawInput, selection,
          isConnected, effectDep, fhevmStatus, inits, fheInstance,
          account, ethereum, flags, toasts, toastSeq, run, issued,
          uiCurrentPoolId, hasEnteredCurrentPool>>

\* ----------------------------------------------------------- primitives
RECURSIVE SumSeq(_)
SumSeq(s) == IF s = <<>> THEN 0 ELSE Head(s) + SumSeq(Tail(s))

Range(s) == {s[i] : i \in 1..Len(s)}

\* keccak256(abi.encodePacked(a, b, c)) and keccak256(abi.encodePacked(seed, i)):
\* a fixed deterministic mixing function onto 0..HashSpace-1.
Keccak3Timed(a, b, c) == (a * 31 + b * 17 + c * 7 + 11 + now) % HashSpace
Keccak3(a, b, c) == (a * 31 + b * 17 + c * 7 + 11) % HashSpace
Keccak2(seed, i) == (seed * 13 + i * 5 + 3) % HashSpace

\* A pool slot as Solidity storage holds it before any write (all zero).
EmptyPool ==
    [startTime |-> 0, endTime |-> 0, totalEntries |-> 0, totalAmount |-> 0,
     participants |-> <<>>, isClosed |-> FALSE, winnersDrawn |-> FALSE,
     encryptedRandomSeed |-> 0, randomSeedHandle |-> 0,
     randomSeedRevealed |-> FALSE, revealedRandomSeed |-> 0,
     winners |-> <<>>,
     indicesGenerated |-> FALSE, encryptedWinnerIndices |-> <<>>]

\* _createNewPool: resets every field but winners of pools[id].
CreateNewPool(ps, id) ==
    [ps EXCEPT ![id] = [@ EXCEPT !.startTime = 0, !.endTime = 0,
                                 !.totalEntries = 0, !.totalAmount = 0,
                                 !.participants = <<>>, !.isClosed = FALSE,
                                 !.winnersDrawn = FALSE,
                                 !.encryptedRandomSeed = 0,
                                 !.randomSeedHandle = 0,
                                 !.randomSeedRevealed = FALSE,
                                 !.revealedRandomSeed = 0]]

ClosePoolInternalNoRollover(ps, cur, id, t) ==
    [pools |-> [ps EXCEPT ![id].isClosed = TRUE], cur |-> cur]

\* _closePool(poolId) at time t: the pools and currentPoolId it leaves.
ClosePoolInternal(ps, cur, id, t) ==
    IF ps[id].totalEntries > 0
    THEN [pools |-> CreateNewPool([ps EXCEPT ![id].isClosed = TRUE], cur + 1),
          cur |-> cur + 1]
    ELSE [pools |-> [ps EXCEPT ![id].endTime = t + POOL_DURATION,
                               ![id].isClosed = FALSE],
          cur |-> cur]

\* The condition under which enterPool, generateRandomSeed, generateWinnerIndices
\* and drawWinners (seed build) close the pool before their checks.
DeadlinePassed(pool, t) ==
    /\ ~pool.isClosed
    /\ pool.startTime > 0
    /\ pool.endTime > 0
    /\ t >= pool.endTime

\* The state a handler sees after its auto-close prologue.
AutoClose(id) ==
    IF DeadlinePassed(pools[id], now)
    THEN ClosePoolInternal(pools, currentPoolId, id, now)
    ELSE [pools |-> pools, cur |-> currentPoolId]

OnlyOwnerAnyone(c) == TRUE

\* modifier onlyOwner: require(msg.sender == owner, ...)
OnlyOwner(c) == c = Owner

\* A pool id can be allocated only up to MaxPoolId.
CanAllocate(x) == x.cur \in PoolIds

\* ------------------------------------------------------------ enterPool
AlreadyEnteredNever(id, a) == FALSE

AlreadyEntered(id, a) == hasEnteredPool[id][a]

EnterPoolResultNoDeadline(a) ==
    IF AlreadyEntered(currentPoolId, a) THEN "Already entered this pool"
    ELSE IF bal[a] < ENTRY_FEE THEN "ERC20: transfer amount exceeds balance"
    ELSE OK

\* The revert reason of enterPool() called by a, or OK.
EnterPoolResult(a) ==
    LET id == currentPoolId
        x == AutoClose(id)
        pool == x.pools[id]
        endT == IF pool.startTime = 0 THEN now + POOL_DURATION ELSE pool.endTime
    IN  IF pool.isClosed THEN "Pool is closed"
        ELSE IF AlreadyEntered(id, a) THEN "Already entered this pool"
        ELSE IF ~(now < endT) THEN "Pool has closed"
        ELSE IF bal[a] < ENTRY_FEE THEN "ERC20: transfer amount exceeds balance"
        ELSE OK

TransferFromNothing(b, from, to, amount) == b

\* mazaToken.safeTransferFrom(from, to, amount) on the balances b
TransferFrom(b, from, to, amount) ==
    [b EXCEPT ![from] = @ - amount, ![to] = @ + amount]

EnterPoolEffect(a) ==
    LET id == currentPoolId
        x == AutoClose(id)
        p0 == x.pools[id]
        p1 == IF p0.startTime = 0
              THEN [p0 EXCEPT !.startTime = now, !.endTime = now + POOL_DURATION]
              ELSE p0
        p2 == [p1 EXCEPT !.participants = Append(@, a),
                         !.totalEntries = @ + 1,
                         !.totalAmount = @ + ENTRY_FEE]
    IN  /\ pools' = [x.pools EXCEPT ![id] = p2]
        /\ currentPoolId' = x.cur
        /\ hasEnteredPool' = [hasEnteredPool EXCEPT ![id][a] = TRUE]
        /\ participantIndex' = [participantIndex EXCEPT ![id][a] = Len(p2.participants) - 1]
        /\ bal' = TransferFrom(bal, a, Contract, ENTRY_FEE)
        /\ UNCHANGED <<protocolFeeRecipient, feeLog, paid, drawInput>>

\* Addresses are interchangeable up to their balances: one that has entered no
\* pool yet comes forward in ascending order.
Fresh(a) == \A p \in PoolIds : ~hasEnteredPool[p][a]
Entrants == {a \in Addr : ~Fresh(a) \/ \A b \in Addr : Fresh(b) => a <= b}
EntriesSoFar == SumSeq([i \in 1..(MaxPoolId + 1) |-> pools[i - 1].totalEntries])

EnterPoolTx(a) ==
    /\ EnterPoolResult(a) = OK
    /\ EntriesSoFar < MaxEntries
    /\ EnterPoolEffect(a)
    /\ UNCHANGED <<variant, now>>

\* enterPool() sent by a from outside the web client.
EnterPool(a) == EnterPoolTx(a) /\ UNCHANGED client

\* enterPool whose safeTransferFrom reverts.  The writes made before the
\* transfer (startTime and endTime on a first entry) are in attempted; the
\* revert restores the storage the call started from.
EnterPoolStarted(a) ==
    LET id == currentPoolId
        p0 == AutoClose(id).pools[id]
    IN  [AutoClose(id).pools EXCEPT ![id] =
            IF p0.startTime = 0
            THEN [p0 EXCEPT !.startTime = now, !.endTime = now + POOL_DURATION]
            ELSE p0]

RollbackKeeps(before, attempted) == attempted

Rollback(before, attempted) == before

\* pools and currentPoolId as enterPool() called by a leaves them: a call that
\* reverts, at whichever require, leaves what it found.
AfterEnterPool(a) ==
    LET id == currentPoolId
        x == AutoClose(id)
        started == EnterPoolStarted(a)
        entered == [started EXCEPT ![id].participants = Append(@, a),
                                   ![id].totalEntries = @ + 1,
                                   ![id].totalAmount = @ + ENTRY_FEE]
    IN  IF EnterPoolResult(a) = OK
        THEN [pools |-> entered, cur |-> x.cur]
        ELSE Rollback([pools |-> pools, cur |-> currentPoolId],
                      [pools |-> started, cur |-> x.cur])

EnterPoolTransferFails(a) ==
    /\ EnterPoolResult(a) = "ERC20: transfer amount exceeds balance"
    /\ pools' = Rollback(pools, EnterPoolStarted(a))
    /\ UNCHANGED <<hasEnteredPool, participantIndex, currentPoolId,
                    protocolFeeRecipient, ledger>>
    /\ UNCHANGED <<variant, now, client>>

\* ------------------------------------------------------------ closePool
ClosePoolResultNoStart(c, id) ==
    IF ~OnlyOwner(c) THEN "Only owner can call this function"
    ELSE IF ~(id <= currentPoolId) THEN "Pool does not exist"
    ELSE IF ~(now >= pools[id].endTime) THEN "Pool is still active"
    ELSE IF pools[id].isClosed THEN "Pool already closed"
    ELSE OK

ClosePoolResult(c, id) ==
    IF ~OnlyOwner(c) THEN "Only owner can call this function"
    ELSE IF ~(id <= currentPoolId) THEN "Pool does not exist"
    ELSE IF ~(pools[id].startTime > 0) THEN "Pool hasn't started yet"
    ELSE IF ~(pools[id].endTime > 0) THEN "Pool hasn't started yet"
    ELSE IF ~(now >= pools[id].endTime) THEN "Pool is still active"
    ELSE IF pools[id].isClosed THEN "Pool already closed"
    ELSE OK

\* pools and currentPoolId as closePool(id) called by c leaves them.
AfterClosePool(c, id) ==
    IF ClosePoolResult(c, id) = OK
    THEN ClosePoolInternal(pools, currentPoolId, id, now)
    ELSE [pools |-> pools, cur |-> currentPoolId]

ClosePool(c, id) ==
    LET r == ClosePoolResult(c, id)
        x == ClosePoolInternal(pools, currentPoolId, id, now)
    IN
    /\ CanAllocate(x)  \* pool ids are allocated up to MaxPoolId
    /\ r = OK
    /\ pools' = x.pools
    /\ currentPoolId' = x.cur
    /\ UNCHANGED <<hasEnteredPool, participantIndex, protocolFeeRecipient, ledger>>
    /\ UNCHANGED <<variant, now, client>>

\* ----------------------------------------------------------- settlement
PercentagePerWinner == (WINNER_SHARE_PERCENTAGE * 100) \div WINNER_COUNT

ProtocolFeeOfShare(total) == (total * WINNER_SHARE_PERCENTAGE) \div 100

ProtocolFee(total) == (total * PROTOCOL_FEE_PERCENTAGE) \div 100

RewardAmountWholePool(winnerPool) == winnerPool

\* uint256 rewardAmount = (winnerPool * percentagePerWinner) / 10000
RewardAmount(winnerPool) == (winnerPool * PercentagePerWinner) \div 10000

WinnerRecordsNone(selected, total) == <<>>

\* The Winner records drawWinners pushes for the selected addresses.
WinnerRecords(selected, total) ==
    [i \in 1..WINNER_COUNT |->
        [winnerAddress |-> selected[i],
         sharePercentage |-> PercentagePerWinner,
         rewardAmount |-> RewardAmount(total - ProtocolFee(total)),
         claimed |-> FALSE]]

\* Storage, balances and logs after the settlement half of drawWinners.
DrawEffect(x, id, pool, selected, input) ==
    LET fee == ProtocolFee(pool.totalAmount)
        drawn == [pool EXCEPT !.winners = @ \o WinnerRecords(selected, pool.totalAmount),
                              !.winnersDrawn = TRUE]
    IN  /\ pools' = [x.pools EXCEPT ![id] = drawn]
        /\ currentPoolId' = x.cur
        /\ drawInput' = [drawInput EXCEPT ![id] = input]
        /\ IF fee > 0
           THEN /\ bal' = [bal EXCEPT ![Contract] = @ - fee,
                                      ![protocolFeeRecipient] = @ + fee]
                /\ feeLog' = [feeLog EXCEPT ![id] =
                                 Append(@, [to |-> protocolFeeRecipient, amount |-> fee])]
           ELSE UNCHANGED <<bal, feeLog>>
        /\ UNCHANGED <<hasEnteredPool, participantIndex, protocolFeeRecipient, paid>>

AlreadyDrawnNever(pool) == FALSE

\* the negation of require(!pool.winnersDrawn, "Winners already drawn")
AlreadyDrawn(pool) == pool.winnersDrawn

IsClosedAlways(pool) == TRUE

\* require(pool.isClosed, "Pool must be closed first ...")
IsClosed(pool) == pool.isClosed

\* require(pool.totalEntries >= WINNER_COUNT, "Not enough participants")
EnoughParticipantsAny(pool) == pool.totalEntries > 0

EnoughParticipants(pool) == pool.totalEntries >= WINNER_COUNT

\* --------------------------------------------- seed build: generateRandomSeed
\* FHE.toBytes32 of a fresh ciphertext: a non-zero handle, one per ciphertext.
HandleOf(id) == id + 1

SeedGeneratedNever(pool) == FALSE

\* the negation of require(pool.randomSeedHandle == bytes32(0), ...)
SeedGenerated(pool) == ~(pool.randomSeedHandle = 0)

GenerateRandomSeedResult(c, id) ==
    IF ~OnlyOwner(c) THEN "Only owner can call this function"
    ELSE IF ~(id <= currentPoolId) THEN "Pool does not exist"
    ELSE LET pool == AutoClose(id).pools[id] IN
         IF ~IsClosed(pool) THEN "Pool must be closed first (countdown must reach 0)"
         ELSE IF AlreadyDrawn(pool) THEN "Winners already drawn"
         ELSE IF ~EnoughParticipants(pool) THEN "Not enough participants"
         ELSE IF SeedGenerated(pool) THEN "Random seed already generated"
         ELSE OK

\* random is the plaintext FHE.randEuint32() encrypts.
GenerateRandomSeedTx(c, id, random) ==
    LET r == GenerateRandomSeedResult(c, id)
        x == AutoClose(id)
    IN
    /\ variant = "seed"
    /\ CanAllocate(x)  \* pool ids are allocated up to MaxPoolId
    /\ r = OK
    /\ pools' = [x.pools EXCEPT ![id].encryptedRandomSeed = random,
                                 ![id].randomSeedHandle = HandleOf(id)]
    /\ currentPoolId' = x.cur
    /\ UNCHANGED <<hasEnteredPool, participantIndex, protocolFeeRecipient, ledger>>
    /\ UNCHANGED <<variant, now>>

\* generateRandomSeed(id) sent by c from outside the web client.
GenerateRandomSeed(c, id, random) == GenerateRandomSeedTx(c, id, random) /\ UNCHANGED client

\* ---------------------------------------------------- seed build: drawWinners
\* The decryption proofs the KMS has signed: one per handle, over its plaintext.
KmsSignatures ==
    {[handle |-> pools[p].randomSeedHandle, value |-> pools[p].encryptedRandomSeed] :
        p \in {q \in PoolIds : pools[q].randomSeedHandle # 0}}
Forged == [handle |-> 0, value |-> 0]

VerifySignaturesAny(handle, cleartexts, proof) == TRUE

VerifySignaturesNever(handle, cleartexts, proof) == FALSE

\* FHE.verifySignatures([handle], cleartexts, proof)
VerifySignatures(handle, cleartexts, proof) ==
    /\ proof \in KmsSignatures
    /\ proof.handle = handle
    /\ proof.value = cleartexts

RECURSIVE SelectLoop(_, _, _, _, _)
SelectLoop(temp, remainingCount, seed, i, winners) ==
    IF ~(i < WINNER_COUNT /\ remainingCount > 0) THEN winners
    ELSE LET randomIndex == seed % remainingCount
         IN  SelectLoop([temp EXCEPT ![randomIndex + 1] = temp[remainingCount]],
                        remainingCount - 1,
                        Keccak2(seed, i),
                        i + 1,
                        [winners EXCEPT ![i + 1] = temp[randomIndex + 1]])

RECURSIVE SelectLoopNoSwap(_, _, _, _, _)
SelectLoopNoSwap(temp, remainingCount, seed, i, winners) ==
    IF ~(i < WINNER_COUNT /\ remainingCount > 0) THEN winners
    ELSE SelectLoopNoSwap(temp, remainingCount - 1, Keccak2(seed, i), i + 1,
                          [winners EXCEPT ![i + 1] = temp[(seed % remainingCount) + 1]])

SelectWinnersNoSwap(participants, randomSeed) ==
    SelectLoopNoSwap(participants, Len(participants), randomSeed, 0,
                     [k \in 1..WINNER_COUNT |-> ZeroAddr])

\* _selectWinners(poolId, randomSeed) on the pool's participants.
SelectWinners(participants, randomSeed) ==
    SelectLoop(participants, Len(participants), randomSeed, 0,
               [k \in 1..WINNER_COUNT |-> ZeroAddr])

DrawWinnersResult(c, id, cleartexts, proof) ==
    IF ~OnlyOwner(c) THEN "Only owner can call this function"
    ELSE IF ~(id <= currentPoolId) THEN "Pool does not exist"
    ELSE LET pool == AutoClose(id).pools[id] IN
         IF ~IsClosed(pool) THEN "Pool must be closed first (countdown must reach 0)"
         ELSE IF AlreadyDrawn(pool) THEN "Winners already drawn"
         ELSE IF ~EnoughParticipants(pool) THEN "Not enough participants"
         ELSE IF ~(pool.randomSeedHandle # 0) THEN "Random seed not generated"
         ELSE IF pool.randomSeedRevealed THEN "Random seed already revealed"
         ELSE IF ~VerifySignatures(pool.randomSeedHandle, cleartexts, proof)
              THEN "Invalid decryption proof"
         ELSE IF bal[Contract] < ProtocolFee(pool.totalAmount)
              THEN "ERC20: transfer amount exceeds balance"
         ELSE OK

DrawWinnersTx(c, id, cleartexts, proof) ==
    LET r == DrawWinnersResult(c, id, cleartexts, proof)
        x == AutoClose(id)
        pool == x.pools[id]
        randomSeed == Keccak3(cleartexts, id, pool.totalEntries)
        revealed == [pool EXCEPT !.revealedRandomSeed = randomSeed,
                                 !.randomSeedRevealed = TRUE]
    IN
    /\ variant = "seed"
    /\ CanAllocate(x)  \* pool ids are allocated up to MaxPoolId
    /\ r = OK
    /\ DrawEffect(x, id, revealed,
                SelectWinners(pool.participants, randomSeed), <<cleartexts>>)
    /\ UNCHANGED <<variant, now>>

\* drawWinners(id, cleartexts, proof) sent by c from outside the web client.
DrawWinners(c, id, cleartexts, proof) == DrawWinnersTx(c, id, cleartexts, proof) /\ UNCHANGED client

\* -------------------------------------- index build: generateWinnerIndices
RECURSIVE Pow2AtLeast(_, _)
Pow2AtLeast(n, k) == IF k >= n THEN k ELSE Pow2AtLeast(n, 2 * k)

\* _nextPowerOf2(n) on uint16
NextPowerOf2(n) ==
    IF n = 0 THEN 1 ELSE IF n > 32768 THEN 32768 ELSE Pow2AtLeast(n, 1)

\* _generateRandomIndex(max), random being the plaintext FHE.randEuint16(powerOf2)
\* encrypts: FHE.select(random < max, random, 0).
GenerateRandomIndex(max, random) == IF random < max THEN random ELSE 0

\* The plaintexts FHE.randEuint16(powerOf2) may draw for the WINNER_COUNT indices.
DrawInputs == {<<0, 1, 2, 3, 4>>, <<7, 3, 3, 0, 5>>}
RandomDraws(max) ==
    {d \in DrawInputs : \A i \in 1..WINNER_COUNT : d[i] < NextPowerOf2(max)}

GenerateWinnerIndicesResult(c, id) ==
    IF ~OnlyOwner(c) THEN "Only owner can call this function"
    ELSE IF ~(id <= currentPoolId) THEN "Pool does not exist"
    ELSE LET pool == AutoClose(id).pools[id] IN
         IF ~IsClosed(pool) THEN "Pool must be closed first"
         ELSE IF AlreadyDrawn(pool) THEN "Winners already drawn"
         ELSE IF ~EnoughParticipants(pool) THEN "Not enough participants"
         ELSE IF pool.indicesGenerated THEN "Indices already generated"
         ELSE OK

GenerateWinnerIndices(c, id, draws) ==
    LET r == GenerateWinnerIndicesResult(c, id)
        x == AutoClose(id)
        participantCount == x.pools[id].totalEntries % 65536
    IN
    /\ variant = "index"
    /\ draws \in RandomDraws(participantCount)
    /\ CanAllocate(x)  \* pool ids are allocated up to MaxPoolId
    /\ r = OK
    /\ pools' = [x.pools EXCEPT
             ![id].encryptedWinnerIndices =
                 @ \o [i \in 1..WINNER_COUNT |->
                         GenerateRandomIndex(participantCount, draws[i])],
             ![id].indicesGenerated = TRUE]
    /\ currentPoolId' = x.cur
    /\ UNCHANGED <<hasEnteredPool, participantIndex, protocolFeeRecipient, ledger>>
    /\ UNCHANGED <<variant, now, client>>

\* --------------------------------------------------- index build: drawWinners
\* uint16 arithmetic is checked (solidity ^0.8.24): a sum above Uint16Max
\* reverts the call with Panic(0x11).
Uint16Max == 65535
Overflowed == 0 - 1
Panicked == <<>>

\* The inner loop of _selectUniqueWinners: the first unselected position after
\* index in cyclic order, index itself when there is none, Overflowed when
\* the uint16 sum index + j overflows.
RECURSIVE NextAvailable(_, _, _, _)
NextAvailable(selected, n, index, j) ==
    IF ~(j < n) THEN index
    ELSE IF index + j > Uint16Max THEN Overflowed
    ELSE IF ~selected[((index + j) % n) + 1] THEN (index + j) % n
    ELSE NextAvailable(selected, n, index, j + 1)

RECURSIVE SelectUniqueLoop(_, _, _, _, _, _)
SelectUniqueLoop(participants, indices, i, winnerCount, selected, winners) ==
    IF ~(i < Len(indices) /\ winnerCount < WINNER_COUNT) THEN winners
    ELSE LET n == Len(participants) % (Uint16Max + 1)
             first == indices[i + 1] % n
             index == IF selected[first + 1]
                      THEN NextAvailable(selected, n, first, 1)
                      ELSE first
         IN  IF index = Overflowed THEN Panicked
             ELSE IF ~selected[index + 1]
             THEN SelectUniqueLoop(participants, indices, i + 1, winnerCount + 1,
                                   [selected EXCEPT ![index + 1] = TRUE],
                                   [winners EXCEPT ![winnerCount + 1] = participants[index + 1]])
             ELSE SelectUniqueLoop(participants, indices, i + 1, winnerCount,
                                   selected, winners)

\* _selectUniqueWinners(poolId, indices): the winners array, or Panicked.
SelectUniqueWinners(participants, indices) ==
    SelectUniqueLoop(participants, indices, 0, 0,
                     [k \in 1..Len(participants) |-> FALSE],
                     [k \in 1..WINNER_COUNT |-> ZeroAddr])

IndicesCountAny(decryptedIndices) == TRUE

\* decryptedIndices.length == WINNER_COUNT
IndicesCount(decryptedIndices) == Len(decryptedIndices) = WINNER_COUNT

DrawWinnersIndexResult(c, id, decryptedIndices) ==
    IF ~OnlyOwner(c) THEN "Only owner can call this function"
    ELSE IF ~(id <= currentPoolId) THEN "Pool does not exist"
    ELSE LET pool == pools[id] IN
         IF ~IsClosed(pool) THEN "Pool must be closed"
         ELSE IF AlreadyDrawn(pool) THEN "Winners already drawn"
         ELSE IF ~pool.indicesGenerated THEN "Indices not generated"
         ELSE IF ~IndicesCount(decryptedIndices) THEN "Invalid indices count"
         ELSE IF SelectUniqueWinners(pool.participants, decryptedIndices) = Panicked
              THEN "Panic(0x11)"
         ELSE IF bal[Contract] < ProtocolFee(pool.totalAmount)
              THEN "ERC20: transfer amount exceeds balance"
         ELSE OK

\* The index arrays the owner may submit.
IndexInputs == {<<0, 1, 2, 3, 4>>, <<7, 3, 3, 0, 5>>, <<0, 3, 3, 0, 5>>, <<4, 4, 4, 4, 4>>, <<1, 2, 3>>}

DrawWinnersIndex(c, id, decryptedIndices) ==
    LET r == DrawWinnersIndexResult(c, id, decryptedIndices) IN
    /\ variant = "index"
    /\ r = OK
    /\ DrawEffect([pools |-> pools, cur |-> currentPoolId], id, pools[id],
                  SelectUniqueWinners(pools[id].participants, decryptedIndices),
                  decryptedIndices)
    /\ UNCHANGED <<variant, now, client>>

\* The participant counts and index arrays _selectUniqueWinners is called on:
\* counts from WINNER_COUNT up and counts at the top of the uint16 range; index
\* values at both ends of the range of positions and at the top of uint16.
SmallCounts == 3
LargeCounts == 3
SelectCounts ==
    (WINNER_COUNT..(WINNER_COUNT + SmallCounts - 1))
        \cup ((Uint16Max - LargeCounts + 1)..Uint16Max)
IndexValues(n) == {0, 1, n - 1, Uint16Max}
IndexArrays(n) == [1..WINNER_COUNT -> IndexValues(n)]

\* A participants array of n distinct addresses.
ParticipantsOf(n) == [k \in 1..n |-> k]

NoSelection == [n |-> 0, indices |-> <<>>, returned |-> FALSE, winners |-> <<>>]

\* _selectUniqueWinners runs on a pool of selection.n participants.
SelectUniqueCall ==
    /\ selection.n > 0
    /\ ~selection.returned
    /\ selection' = [selection EXCEPT
          !.returned = TRUE,
          !.winners = SelectUniqueWinners(ParticipantsOf(selection.n), selection.indices)]
    /\ UNCHANGED <<variant, storage, ledger, now, app, raffle>>

\* ---------------------------------------------------------- claimReward
NotFound == -1

FindWinnerDefaultFirst(winners, a) ==
    LET hits == {i \in 1..Len(winners) : winners[i].winnerAddress = a}
    IN  IF hits = {} THEN 0
        ELSE (CHOOSE i \in hits : \A j \in hits : i <= j) - 1

\* The loop of claimReward: the first index whose winnerAddress is a, 0-based.
FindWinner(winners, a) ==
    LET hits == {i \in 1..Len(winners) : winners[i].winnerAddress = a}
    IN  IF hits = {} THEN NotFound
        ELSE (CHOOSE i \in hits : \A j \in hits : i <= j) - 1

ClaimedNever(w) == FALSE

Claimed(w) == w.claimed

ClaimAmountShare(w) == w.sharePercentage

\* uint256 rewardAmount = pool.winners[winnerIndex].rewardAmount
ClaimAmount(w) == w.rewardAmount

\* The revert reason of claimReward(id) called by c, or OK, when the pools are ps
\* and the contract holds balC tokens.
ClaimRewardResultIn(ps, balC, c, id) ==
    IF ~(id <= currentPoolId) THEN "Pool does not exist"
    ELSE IF ~ps[id].winnersDrawn THEN "Winners not drawn yet"
    ELSE LET winnerIndex == FindWinner(ps[id].winners, c) IN
         IF winnerIndex = NotFound THEN "Not a winner"
         ELSE IF Claimed(ps[id].winners[winnerIndex + 1]) THEN "Reward already claimed"
         ELSE IF balC < ClaimAmount(ps[id].winners[winnerIndex + 1])
              THEN "ERC20: transfer amount exceeds balance"
         ELSE OK

ClaimRewardResult(c, id) == ClaimRewardResultIn(pools, bal[Contract], c, id)

ClaimRewardTx(c, id) ==
    LET r == ClaimRewardResult(c, id)
        winnerIndex == FindWinner(pools[id].winners, c)
        rewardAmount == ClaimAmount(pools[id].winners[winnerIndex + 1])
    IN
    /\ r = OK
    /\ pools' = [pools EXCEPT ![id].winners[winnerIndex + 1].claimed = TRUE]
    /\ bal' = [bal EXCEPT ![Contract] = @ - rewardAmount, ![c] = @ + rewardAmount]
    /\ paid' = [paid EXCEPT ![id][c] = @ + rewardAmount]
    /\ UNCHANGED <<hasEnteredPool, participantIndex, currentPoolId,
                    protocolFeeRecipient, feeLog, drawInput>>
    /\ UNCHANGED <<variant, now>>

\* claimReward(id) sent by c from outside the web client.
ClaimReward(c, id) == ClaimRewardTx(c, id) /\ UNCHANGED client

\* claimReward with a token whose transfer calls back into its recipient.
StateAtTransferUnmarked(c, id) == pools

\* The pools at the moment safeTransfer is invoked: the winner's record is
\* already marked claimed.
StateAtTransfer(c, id) ==
    [pools EXCEPT ![id].winners[FindWinner(pools[id].winners, c) + 1].claimed = TRUE]

\* What claimReward(id), re-entered by c from the transfer's callback, returns.
NestedClaimResult(c, id) ==
    LET rewardAmount ==
            ClaimAmount(pools[id].winners[FindWinner(pools[id].winners, c) + 1])
    IN  ClaimRewardResultIn(StateAtTransfer(c, id), bal[Contract] - rewardAmount, c, id)

\* The whole outer call; the callback catches a revert of the nested call, and
\* a nested call that succeeds pays the reward once more.
ClaimRewardReentered(c, id) ==
    LET winnerIndex == FindWinner(pools[id].winners, c)
        rewardAmount == ClaimAmount(pools[id].winners[winnerIndex + 1])
        total == IF NestedClaimResult(c, id) = OK THEN 2 * rewardAmount ELSE rewardAmount
    IN
    /\ ClaimRewardResult(c, id) = OK
    /\ pools' = [pools EXCEPT ![id].winners[winnerIndex + 1].claimed = TRUE]
    /\ bal' = [bal EXCEPT ![Contract] = @ - total, ![c] = @ + total]
    /\ paid' = [paid EXCEPT ![id][c] = @ + total]
    /\ UNCHANGED <<hasEnteredPool, participantIndex, currentPoolId,
                    protocolFeeRecipient, feeLog, drawInput>>
    /\ UNCHANGED <<variant, now, client>>

\* ---------------------------------------------------------------- views
GetPoolStored(id) ==
    [startTime |-> pools[id].startTime, endTime |-> pools[id].endTime,
     totalEntries |-> pools[id].totalEntries, totalAmount |-> pools[id].totalAmount,
     isClosed |-> pools[id].isClosed, winnersDrawn |-> pools[id].winnersDrawn,
     participantCount |-> Len(pools[id].participants)]

\* getPool(id): isClosed is reported as actuallyClosed.
GetPool(id) ==
    LET pool == pools[id]
        actuallyClosed == pool.isClosed
                            \/ (pool.startTime > 0 /\ pool.endTime > 0 /\ now >= pool.endTime)
    IN  [startTime |-> pool.startTime, endTime |-> pool.endTime,
         totalEntries |-> pool.totalEntries, totalAmount |-> pool.totalAmount,
         isClosed |-> actuallyClosed, winnersDrawn |-> pool.winnersDrawn,
         participantCount |-> Len(pool.participants)]

\* getPoolWinners(id): the four parallel arrays.
GetPoolWinners(id) ==
    LET w == pools[id].winners
    IN  [winners |-> [i \in 1..Len(w) |-> w[i].winnerAddress],
         percentages |-> [i \in 1..Len(w) |-> w[i].sharePercentage],
         rewards |-> [i \in 1..Len(w) |-> w[i].rewardAmount],
         claimed |-> [i \in 1..Len(w) |-> w[i].claimed]]

\* isWinner(id, user)
IsWinner(id, user) ==
    LET i == FindWinner(pools[id].winners, user)
    IN  IF i = NotFound THEN <<FALSE, 0, FALSE>>
        ELSE <<TRUE, pools[id].winners[i + 1].rewardAmount, pools[id].winners[i + 1].claimed>>

\* A call of getPool, getPoolWinners or isWinner: view functions write nothing.
View(id) ==
    /\ id <= currentPoolId
    /\ UNCHANGED <<variant, storage, ledger, now, client>>

\* ----------------------------------------------- setProtocolFeeRecipient
SetProtocolFeeRecipientResult(c, newRecipient) ==
    IF ~OnlyOwner(c) THEN "Only owner can call this function"
    ELSE IF newRecipient = ZeroAddr THEN "Invalid address"
    ELSE OK

SetProtocolFeeRecipient(c, newRecipient) ==
    LET r == SetProtocolFeeRecipientResult(c, newRecipient) IN
    /\ r = OK
    /\ protocolFeeRecipient' = newRecipient
    /\ UNCHANGED <<pools, hasEnteredPool, participantIndex, currentPoolId, ledger>>
    /\ UNCHANGED <<variant, now, client>>

\* ----------------------------------------------------------------- time
Tick ==
    /\ now + TickStep <= MaxTime
    /\ now' = now + TickStep
    /\ UNCHANGED <<variant, storage, ledger, client>>

\* ------------------------------------------------- App: FHEVM initialisation
\* The awaits of initializeFheInstance, in order: the wait for the ethereum
\* provider, the wait for the RelayerSDK, initSDK() and createInstance().
InitStages == <<"provider", "sdk", "initSDK", "createInstance">>
MaxInits == 2

RemoveAt(s, i) == [k \in 1..(Len(s) - 1) |-> IF k < i THEN s[k] ELSE s[k + 1]]

\* wagmi reports the wallet connected / disconnected.
WalletConnect ==
    /\ ~isConnected
    /\ isConnected' = TRUE
    /\ UNCHANGED <<effectDep, fhevmStatus, inits, fheInstance>>
    /\ UNCHANGED <<variant, storage, ledger, now, selection, raffle>>

WalletDisconnect ==
    /\ isConnected
    /\ isConnected' = FALSE
    /\ UNCHANGED <<effectDep, fhevmStatus, inits, fheInstance>>
    /\ UNCHANGED <<variant, storage, ledger, now, selection, raffle>>

\* useEffect(..., [isConnected]): runs when isConnected differs from the value
\* it last ran with.  Connected: initializeFhevm() runs to its await, having set
\* the status to 'loading'.  Disconnected: the status is set to 'idle'.
ConnectionEffect ==
    /\ isConnected # effectDep
    /\ effectDep' = isConnected
    /\ IF isConnected
       THEN /\ Len(inits) < MaxInits
            /\ fhevmStatus' = "loading"
            /\ inits' = Append(inits, 1)
       ELSE /\ fhevmStatus' = "idle"
            /\ inits' = inits
    /\ UNCHANGED <<isConnected, fheInstance>>
    /\ UNCHANGED <<variant, storage, ledger, now, selection, raffle>>

\* The i-th call in flight passes an await of initializeFheInstance that is not
\* its last.
InitAdvances(i) ==
    /\ i \in 1..Len(inits)
    /\ inits[i] < Len(InitStages)
    /\ inits' = [inits EXCEPT ![i] = @ + 1]
    /\ UNCHANGED <<isConnected, effectDep, fhevmStatus, fheInstance>>
    /\ UNCHANGED <<variant, storage, ledger, now, selection, raffle>>

\* createInstance resolves: fheInstance is assigned, and initializeFhevm resumes
\* after its await with setFhevmStatus('ready').
InitSucceeds(i) ==
    /\ i \in 1..Len(inits)
    /\ inits[i] = Len(InitStages)
    /\ inits' = RemoveAt(inits, i)
    /\ fheInstance' = TRUE
    /\ fhevmStatus' = "ready"
    /\ UNCHANGED <<isConnected, effectDep>>
    /\ UNCHANGED <<variant, storage, ledger, now, selection, raffle>>

\* An await of initializeFheInstance rejects (provider or SDK timeout, initSDK
\* or createInstance throwing): the catch of initializeFhevm runs
\* setFhevmStatus('error').
InitFails(i) ==
    /\ i \in 1..Len(inits)
    /\ inits' = RemoveAt(inits, i)
    /\ fhevmStatus' = "error"
    /\ UNCHANGED <<isConnected, effectDep, fheInstance>>
    /\ UNCHANGED <<variant, storage, ledger, now, selection, raffle>>

\* ------------------------------------------------------- FheRaffle: toasts
Handlers == {"approve", "enter", "draw", "claim"}
MaxToasts == 4
DefaultDuration == 5000

\* addToast(message, type, duration) with the id it returns; removeToast(id);
\* updateToast(id, message, type).
AddToast(ts, id, type, duration) ==
    Append(ts, [id |-> id, type |-> type, duration |-> duration])
RemoveToast(ts, id) == SelectSeq(ts, LAMBDA t : t.id # id)
UpdateToast(ts, id, type) ==
    [k \in 1..Len(ts) |-> IF ts[k].id = id THEN [ts[k] EXCEPT !.type = type] ELSE ts[k]]

\* ToastComponent's timer: a toast that is not 'loading' and whose duration is
\* not 0 removes itself.
ToastTimeout(i) ==
    /\ i \in 1..Len(toasts)
    /\ toasts[i].type # "loading"
    /\ toasts[i].duration # 0
    /\ toasts' = RemoveToast(toasts, toasts[i].id)
    /\ UNCHANGED <<account, ethereum, flags, toastSeq, run, issued,
                    uiCurrentPoolId, hasEnteredCurrentPool>>
    /\ UNCHANGED <<variant, storage, ledger, now, selection, app>>

\* ToastComponent's close button, rendered when the type is not 'loading'.
ToastClose(i) ==
    /\ i \in 1..Len(toasts)
    /\ toasts[i].type # "loading"
    /\ toasts[i].duration = 0
    /\ toasts' = RemoveToast(toasts, toasts[i].id)
    /\ UNCHANGED <<account, ethereum, flags, toastSeq, run, issued,
                    uiCurrentPoolId, hasEnteredCurrentPool>>
    /\ UNCHANGED <<variant, storage, ledger, now, selection, app>>

\* ----------------------------------------------------- FheRaffle: handlers
NoProof == [handle |-> 0, value |-> 0]
NoRun == [handler |-> "none", pc |-> "idle", step |-> 0, toastId |-> 0, poolId |-> 0,
          handle |-> 0, cleartexts |-> 0, proof |-> NoProof]

\* The external calls of handleDrawWinners, in the order of its awaits.
DrawSteps == <<"generateRandomSeed", "getEncryptedRandomSeed",
               "publicDecryptWithProof", "drawWinners">>

StepAfterSkipsDecrypt(k) == IF k = 2 THEN 4 ELSE k + 1

\* The await that follows the k-th one when it resolved.
StepAfter(k) == k + 1

\* isOwner as loadContractData sets it: the load returns before setIsOwner
\* when there is no provider, and otherwise compares owner() with the account.
IsOwner == ethereum /\ account = Owner

\* The external call the running handleDrawWinners awaits, with the locals it
\* passes and whether the await resolved.
Call(ok) ==
    [op |-> DrawSteps[run.step], poolId |-> run.poolId, handle |-> run.handle,
     proof |-> run.proof, ok |-> ok]

\* loadContractData(): currentPoolId and hasEnteredCurrentPool as the contract
\* holds them (cur and entered are the contract's values at the time of the load).
Loaded(cur, entered) ==
    /\ uiCurrentPoolId' = cur
    /\ hasEnteredCurrentPool' = entered[cur][account]

\* The 3-second interval of loadContractData.
LoadContractData ==
    /\ ethereum
    /\ Loaded(currentPoolId, hasEnteredPool)
    /\ UNCHANGED <<account, ethereum, flags, toasts, toastSeq, run, issued>>
    /\ UNCHANGED <<variant, storage, ledger, now, selection, app>>

\* The wallet switches to another account while no handler runs.
AccountChanged(a) ==
    /\ run.handler = "none"
    /\ a # account
    /\ account' = a
    /\ UNCHANGED <<ethereum, flags, toasts, toastSeq, run, issued,
                    uiCurrentPoolId, hasEnteredCurrentPool>>
    /\ UNCHANGED <<variant, storage, ledger, now, selection, app>>

CanStart == run.handler = "none" /\ toastSeq + 2 <= MaxToasts

\* A handler returns before it created its loading toast, with one toast.
ReturnsEarly(type) ==
    /\ toasts' = AddToast(toasts, toastSeq + 1, type, DefaultDuration)
    /\ toastSeq' = toastSeq + 1
    /\ UNCHANGED <<account, ethereum, flags, run, issued,
                    uiCurrentPoolId, hasEnteredCurrentPool>>

\* const toastId = addToast(..., 'loading', 0); try { setIsX(true); ... up to
\* the await of provider.getSigner().
Begins(h, poolId) ==
    /\ toasts' = AddToast(toasts, toastSeq + 1, "loading", 0)
    /\ toastSeq' = toastSeq + 1
    /\ flags' = [flags EXCEPT ![h] = TRUE]
    /\ run' = [NoRun EXCEPT !.handler = h, !.pc = "signer",
                            !.toastId = toastSeq + 1, !.poolId = poolId]
    /\ UNCHANGED <<account, ethereum, uiCurrentPoolId, hasEnteredCurrentPool>>

\* The loading toast was created and the flag set inside try; then
\* if (!ethereum) { addToast(..., 'error'); return; } and finally { setIsX(false) }.
ReturnsInsideTry(h) ==
    /\ toasts' = AddToast(AddToast(toasts, toastSeq + 1, "loading", 0),
                          toastSeq + 2, "error", DefaultDuration)
    /\ toastSeq' = toastSeq + 2
    /\ flags' = [flags EXCEPT ![h] = FALSE]
    /\ UNCHANGED <<account, ethereum, run, issued, uiCurrentPoolId, hasEnteredCurrentPool>>

\* catch: removeToast(toastId); addToast(..., type); finally: setIsX(false).
Catches(type) ==
    /\ toasts' = AddToast(RemoveToast(toasts, run.toastId), toastSeq + 1, type,
                          DefaultDuration)
    /\ toastSeq' = toastSeq + 1
    /\ flags' = [flags EXCEPT ![run.handler] = FALSE]
    /\ run' = NoRun

\* The end of try: removeToast(toastId); addToast(..., 'success');
\* await loadContractData(); finally: setIsX(false).
Succeeds ==
    /\ toasts' = AddToast(RemoveToast(toasts, run.toastId), toastSeq + 1, "success",
                          DefaultDuration)
    /\ toastSeq' = toastSeq + 1
    /\ flags' = [flags EXCEPT ![run.handler] = FALSE]
    /\ run' = NoRun
    /\ Loaded(currentPoolId', hasEnteredPool')

Chain == <<variant, storage, ledger, now>>

HandleApproveStart ==
    /\ CanStart
    /\ IF ~ethereum THEN ReturnsEarly("error")
       ELSE Begins("approve", 0) /\ issued' = issued
    /\ UNCHANGED <<Chain, selection, app>>

HandleEnterPoolStart ==
    /\ CanStart
    /\ IF hasEnteredCurrentPool \/ ~ethereum THEN ReturnsEarly("error")
       ELSE Begins("enter", 0) /\ issued' = issued
    /\ UNCHANGED <<Chain, selection, app>>

HandleClaimRewardStart(poolId) ==
    /\ CanStart
    /\ poolId <= uiCurrentPoolId
    /\ IF ~ethereum THEN ReturnsInsideTry("claim")
       ELSE Begins("claim", poolId) /\ issued' = issued
    /\ UNCHANGED <<Chain, selection, app>>

HandleDrawWinnersStart ==
    /\ CanStart
    /\ IF ~IsOwner THEN ReturnsEarly("error")
       ELSE IF fhevmStatus # "ready" THEN ReturnsEarly("warning")
       ELSE IF ~ethereum THEN ReturnsInsideTry("draw")
       ELSE Begins("draw", uiCurrentPoolId) /\ issued' = <<>>
    /\ UNCHANGED <<Chain, selection, app>>

\* provider.getSigner() resolves and the handler runs to its next await: the
\* transaction request, after updateToast(toastId, ..., 'info') in
\* handleApprove, handleEnterPool and handleClaimReward and after
\* updateToast(toastId, 'Step 1/3 ...', 'loading') in handleDrawWinners.
SignerResolves ==
    /\ run.pc = "signer"
    /\ run' = [run EXCEPT !.pc = "send",
                           !.step = IF run.handler = "draw" THEN 1 ELSE 0]
    /\ toasts' = UpdateToast(toasts, run.toastId,
                             IF run.handler = "draw" THEN "loading" ELSE "info")
    /\ UNCHANGED <<account, ethereum, flags, toastSeq, issued,
                    uiCurrentPoolId, hasEnteredCurrentPool>>
    /\ UNCHANGED <<Chain, selection, app>>

\* The pending await rejects for a reason outside the contract: the user
\* rejects the request in the wallet ('warning' toast), or the RPC node or the
\* relayer is unavailable ('error' toast).
AwaitRejects(type) ==
    /\ run.handler # "none"
    /\ Catches(type)
    /\ issued' = IF run.step > 0 THEN Append(issued, Call(FALSE)) ELSE issued
    /\ UNCHANGED <<account, ethereum, uiCurrentPoolId, hasEnteredCurrentPool>>
    /\ UNCHANGED <<Chain, selection, app>>

\* tokenContract.approve(...) is mined (the allowance is part of bal).
ApproveConfirmed ==
    /\ run.handler = "approve" /\ run.pc = "send"
    /\ UNCHANGED <<Chain, selection, app>>
    /\ Succeeds
    /\ UNCHANGED <<account, ethereum, issued>>

\* contract.enterPool() would revert: the call throws with the revert reason.
EnterPoolReverted ==
    /\ run.handler = "enter" /\ run.pc = "send"
    /\ EnterPoolResult(account) # OK
    /\ Catches("error")
    /\ hasEnteredCurrentPool' =
          IF EnterPoolResult(account) = "Already entered this pool"
          THEN TRUE ELSE hasEnteredCurrentPool
    /\ UNCHANGED <<account, ethereum, issued, uiCurrentPoolId>>
    /\ UNCHANGED <<Chain, selection, app>>

EnterPoolConfirmed ==
    /\ run.handler = "enter" /\ run.pc = "send"
    /\ EnterPoolTx(account)
    /\ Succeeds
    /\ UNCHANGED <<account, ethereum, issued>>
    /\ UNCHANGED <<selection, app>>

ClaimRewardReverted ==
    /\ run.handler = "claim" /\ run.pc = "send"
    /\ ClaimRewardResult(account, run.poolId) # OK
    /\ Catches("error")
    /\ UNCHANGED <<account, ethereum, issued, uiCurrentPoolId, hasEnteredCurrentPool>>
    /\ UNCHANGED <<Chain, selection, app>>

ClaimRewardConfirmed ==
    /\ run.handler = "claim" /\ run.pc = "send"
    /\ ClaimRewardTx(account, run.poolId)
    /\ Succeeds
    /\ UNCHANGED <<account, ethereum, issued>>
    /\ UNCHANGED <<selection, app>>

\* getEncryptedRandomSeed(poolId)
GetEncryptedRandomSeed(id) == pools[id].randomSeedHandle

\* What fhe.publicDecrypt([handle]) returns: the KMS proof of the handle.
PublicDecrypt(handle) == {proof \in KmsSignatures : proof.handle = handle}

Issues(ok) == issued' = Append(issued, Call(ok))

\* Step 1: contract.generateRandomSeed(currentPoolId) would revert.
DrawGenerateReverted ==
    /\ run.handler = "draw" /\ run.step = 1
    /\ GenerateRandomSeedResult(account, run.poolId) # OK
    /\ Catches("error")
    /\ Issues(FALSE)
    /\ UNCHANGED <<account, ethereum, uiCurrentPoolId, hasEnteredCurrentPool>>
    /\ UNCHANGED <<Chain, selection, app>>

\* Step 1: generateRandomSeed is mined and generateTx.wait() resolves.
DrawGenerateConfirmed(random) ==
    /\ run.handler = "draw" /\ run.step = 1
    /\ GenerateRandomSeedTx(account, run.poolId, random)
    /\ run' = [run EXCEPT !.step = StepAfter(1)]
    /\ toasts' = UpdateToast(toasts, run.toastId, "loading")
    /\ Issues(TRUE)
    /\ UNCHANGED <<account, ethereum, flags, toastSeq, uiCurrentPoolId, hasEnteredCurrentPool>>
    /\ UNCHANGED <<selection, app>>

\* Step 2: the handle is read; a zero handle throws.
DrawGetHandle ==
    /\ run.handler = "draw" /\ run.step = 2
    /\ run.poolId <= currentPoolId
    /\ LET handle == GetEncryptedRandomSeed(run.poolId) IN
       IF handle = 0
       THEN /\ Catches("error")
            /\ Issues(FALSE)
       ELSE /\ run' = [run EXCEPT !.step = StepAfter(2), !.handle = handle]
            /\ toasts' = UpdateToast(toasts, run.toastId, "loading")
            /\ Issues(TRUE)
            /\ UNCHANGED <<flags, toastSeq>>
    /\ UNCHANGED <<account, ethereum, uiCurrentPoolId, hasEnteredCurrentPool>>
    /\ UNCHANGED <<Chain, selection, app>>

\* Step 3: publicDecryptWithProof(handle) returns cleartexts and proof.
DrawDecrypted ==
    /\ run.handler = "draw" /\ run.step = 3
    /\ fheInstance
    /\ \E proof \in PublicDecrypt(run.handle) :
          run' = [run EXCEPT !.step = StepAfter(3), !.cleartexts = proof.value,
                             !.proof = proof]
    /\ toasts' = UpdateToast(toasts, run.toastId, "loading")
    /\ Issues(TRUE)
    /\ UNCHANGED <<account, ethereum, flags, toastSeq, uiCurrentPoolId, hasEnteredCurrentPool>>
    /\ UNCHANGED <<Chain, selection, app>>

\* Step 4: contract.drawWinners(currentPoolId, cleartexts, proof). A revert
\* throws into catch; otherwise the transaction is mined and loadWinners, the
\* animation, the success toast and loadContractData follow.
DrawSubmit ==
    /\ run.handler = "draw" /\ run.step = 4
    /\ IF DrawWinnersResult(account, run.poolId, run.cleartexts, run.proof) # OK
       THEN /\ Catches("error")
            /\ Issues(FALSE)
            /\ UNCHANGED <<Chain, uiCurrentPoolId, hasEnteredCurrentPool>>
       ELSE /\ DrawWinnersTx(account, run.poolId, run.cleartexts, run.proof)
            /\ Succeeds
            /\ Issues(TRUE)
    /\ UNCHANGED <<account, ethereum>>
    /\ UNCHANGED <<selection, app>>

\* enterPool() sent by another user's wallet.
OtherEntrants ==
    {a \in Addr \ {account} :
        ~Fresh(a) \/ \A b \in Addr \ {account} : Fresh(b) => a <= b}

\* ----------------------------------------------------------------- init
InitBalance(h) ==
    IF h \in Addr THEN (IF h % 2 = 1 THEN 2 * ENTRY_FEE ELSE ENTRY_FEE) ELSE 0

InitCommon ==
    /\ pools = [p \in PoolIds |-> EmptyPool]
    /\ hasEnteredPool = [p \in PoolIds |-> [a \in Callers |-> FALSE]]
    /\ participantIndex = [p \in PoolIds |-> [a \in Callers |-> 0]]
    /\ currentPoolId = 0
    /\ protocolFeeRecipient = Recipient1
    /\ bal = [h \in Holders |-> InitBalance(h)]
    /\ now = TickStep
    /\ feeLog = [p \in PoolIds |-> <<>>]
    /\ paid = [p \in PoolIds |-> [a \in Callers |-> 0]]
    /\ drawInput = [p \in PoolIds |-> <<>>]

\* App as mounted: no wallet connected; the connection effect has run once
\* and set the status to 'idle'.
InitApp ==
    /\ isConnected = FALSE
    /\ effectDep = FALSE
    /\ fhevmStatus = "idle"
    /\ inits = <<>>
    /\ fheInstance = FALSE

\* FheRaffle as mounted.
InitRaffle ==
    /\ account = Owner
    /\ ethereum = TRUE
    /\ flags = [h \in Handlers |-> FALSE]
    /\ toasts = <<>>
    /\ toastSeq = 0
    /\ run = NoRun
    /\ issued = <<>>
    /\ uiCurrentPoolId = 0
    /\ hasEnteredCurrentPool = FALSE

InitClient ==
    /\ selection = NoSelection
    /\ InitApp
    /\ InitRaffle

Init == variant \in {"seed", "index"} /\ InitCommon /\ InitClient

\* Calls by the owner and by one other account.
Operators == {Owner, 1}

Next ==
    \/ \E a \in Entrants : EnterPool(a)
    \/ \E a \in Entrants : EnterPoolTransferFails(a)
    \/ \E c \in Operators, id \in PoolIds : ClosePool(c, id)
    \/ \E c \in Operators, id \in PoolIds, random \in SeedValues :
          GenerateRandomSeed(c, id, random)
    \/ \E c \in Operators, id \in PoolIds, v \in SeedValues,
          proof \in KmsSignatures \cup {Forged} : DrawWinners(c, id, v, proof)
    \/ \E c \in Operators, id \in PoolIds, draws \in DrawInputs :
          GenerateWinnerIndices(c, id, draws)
    \/ \E c \in Operators, id \in PoolIds, indices \in IndexInputs :
          DrawWinnersIndex(c, id, indices)
    \/ \E c \in Callers, id \in PoolIds : ClaimReward(c, id)
    \/ \E c \in Callers, id \in PoolIds : ClaimRewardReentered(c, id)
    \/ \E c \in Operators, r \in Recipients \cup {ZeroAddr} : SetProtocolFeeRecipient(c, r)
    \/ \E id \in PoolIds : View(id)
    \/ Tick

\* Either build of the contract, deployed at time TickStep.
Spec == Init /\ [][Next]_vars

\* The last block time the model reaches.
LastTime == TickStep * (MaxTime \div TickStep)

\* The owner's calls on pool id that carry a round forward: closePool, then
\* generateRandomSeed and drawWinners with the proof the KMS signed (seed build),
\* or generateWinnerIndices and drawWinners (index build).
OwnerCloses(id) == ClosePool(Owner, id)
OwnerCommits(id) ==
    \/ \E random \in SeedValues : GenerateRandomSeed(Owner, id, random)
    \/ \E draws \in DrawInputs : GenerateWinnerIndices(Owner, id, draws)
OwnerDraws(id) ==
    \/ \E v \in SeedValues, proof \in KmsSignatures : DrawWinners(Owner, id, v, proof)
    \/ \E indices \in IndexInputs : DrawWinnersIndex(Owner, id, indices)

\* Block time advances, and the owner keeps calling: a call that stays possible
\* is eventually made.
Fairness ==
    /\ WF_vars(Tick)
    /\ \A id \in PoolIds :
          /\ WF_vars(OwnerCloses(id))
          /\ WF_vars(OwnerCommits(id))
          /\ WF_vars(OwnerDraws(id))

SpecLive == Init /\ [][Next]_vars /\ Fairness

\* _selectUniqueWinners of the index build on its own: each behaviour is one
\* call, on one participant count and one index array.
InitSelect ==
    /\ variant = "index"
    /\ InitCommon
    /\ selection \in {[n |-> n, indices |-> ix, returned |-> FALSE, winners |-> <<>>] :
                        n \in SelectCounts, ix \in UNION {IndexArrays(m) : m \in SelectCounts}}
    /\ selection.indices \in IndexArrays(selection.n)
    /\ InitApp
    /\ InitRaffle

NextSelect == SelectUniqueCall

\* App's wallet connection and FHEVM initialisation, beside a deployed contract.
InitFhevm ==
    /\ variant = "seed"
    /\ InitCommon
    /\ InitClient

NextFhevm ==
    \/ WalletConnect
    \/ WalletDisconnect
    \/ ConnectionEffect
    \/ \E i \in 1..MaxInits : InitAdvances(i)
    \/ \E i \in 1..MaxInits : InitSucceeds(i)
    \/ \E i \in 1..MaxInits : InitFails(i)

SpecFhevm == InitFhevm /\ [][NextFhevm]_vars

\* FheRaffle in a browser whose wallet is connected and whose FHEVM instance
\* is ready, beside the seed build of the contract: the handlers of the
\* connected account, other users entering, time passing.
InitFrontend ==
    /\ variant = "seed"
    /\ InitCommon
    /\ selection = NoSelection
    /\ isConnected = TRUE
    /\ effectDep = TRUE
    /\ fhevmStatus = "ready"
    /\ inits = <<>>
    /\ fheInstance = TRUE
    /\ account \in {Owner, 1}
    /\ ethereum \in BOOLEAN
    /\ flags = [h \in Handlers |-> FALSE]
    /\ toasts = <<>>
    /\ toastSeq = 0
    /\ run = NoRun
    /\ issued = <<>>
    /\ uiCurrentPoolId = 0
    /\ hasEnteredCurrentPool = FALSE

NextFrontend ==
    \/ HandleApproveStart
    \/ HandleEnterPoolStart
    \/ \E poolId \in PoolIds : HandleClaimRewardStart(poolId)
    \/ HandleDrawWinnersStart
    \/ SignerResolves
    \/ \E type \in {"warning", "error"} : AwaitRejects(type)
    \/ ApproveConfirmed
    \/ EnterPoolReverted
    \/ EnterPoolConfirmed
    \/ ClaimRewardReverted
    \/ ClaimRewardConfirmed
    \/ DrawGenerateReverted
    \/ \E random \in SeedValues : DrawGenerateConfirmed(random)
    \/ DrawGetHandle
    \/ DrawDecrypted
    \/ DrawSubmit
    \/ LoadContractData
    \/ \E a \in {Owner, 1} : AccountChanged(a)
    \/ \E i \in 1..MaxToasts : ToastTimeout(i)
    \/ \E i \in 1..MaxToasts : ToastClose(i)
    \/ \E a \in OtherEntrants : EnterPool(a)
    \/ Tick

SpecFrontend == InitFrontend /\ [][NextFrontend]_vars

SpecSelect == InitSelect /\ [][NextSelect]_vars
\* ================================================================ claims
Drawn(p) == pools[p].winnersDrawn
WinnerAddrs(p) == {pools[p].winners[i].winnerAddress : i \in 1..Len(pools[p].winners)}
RewardSum(p) ==
    SumSeq([i \in 1..Len(pools[p].winners) |-> pools[p].winners[i].rewardAmount])
FeeTransferred(p) == SumSeq([i \in 1..Len(feeLog[p]) |-> feeLog[p][i].amount])
Residual(p) == pools[p].totalAmount - FeeTransferred(p) - RewardSum(p)
RecordedReward(p, a) ==
    LET i == FindWinner(pools[p].winners, a)
    IN  IF i = NotFound THEN 0 ELSE pools[p].winners[i + 1].rewardAmount
NoDuplicates(s) == \A i, j \in 1..Len(s) : i # j => s[i] # s[j]
SeedCommitted(p) == pools[p].randomSeedHandle # 0 /\ ~pools[p].winnersDrawn
ProofInputs == KmsSignatures \cup {Forged}
Committed(p) ==
    IF variant = "seed" THEN <<pools[p].encryptedRandomSeed>>
    ELSE pools[p].encryptedWinnerIndices

\* C1: settlement conservation.  After drawWinners, protocolFee + the sum of the
\* winners' rewardAmount is at most totalAmount, and what is left over is less
\* than WINNER_COUNT minor units.  (Amounts are in units of 10^15 minor units,
\* so a residual of WINNER_COUNT units or more is all the more WINNER_COUNT
\* minor units or more.)  The code leaves 9% of the pool unassigned.
C1_SettlementConservation ==
    \A p \in PoolIds :
        Drawn(p) =>
            /\ FeeTransferred(p) + RewardSum(p) <= pools[p].totalAmount
            /\ Residual(p) < WINNER_COUNT

\* C2 as claimed: a second enterPool by a participant of the current pool always
\* fails with 'Already entered this pool', and no address is listed twice.
C2_SecondEntryAlreadyEntered ==
    /\ \A a \in Addr :
          hasEnteredPool[currentPoolId][a] =>
              EnterPoolResult(a) = "Already entered this pool"
    /\ \A p \in PoolIds : NoDuplicates(pools[p].participants)

\* C2 as amended: a second enterPool by a participant of the current pool fails
\* with 'Already entered this pool' while block.timestamp < endTime and with
\* 'Pool is closed' from endTime on; no address is listed twice in any pool and
\* each listed participant has paid one entry fee.
C2_SingleEntry ==
    /\ \A a \in Addr :
          hasEnteredPool[currentPoolId][a] =>
              EnterPoolResult(a) =
                  (IF now < pools[currentPoolId].endTime
                   THEN "Already entered this pool" ELSE "Pool is closed")
    /\ \A p \in PoolIds :
          /\ NoDuplicates(pools[p].participants)
          /\ pools[p].totalAmount = ENTRY_FEE * Cardinality(Range(pools[p].participants))

C2_Witness ==
    \E a \in Addr :
        /\ hasEnteredPool[currentPoolId][a]
        /\ bal[a] >= ENTRY_FEE
        /\ now < pools[currentPoolId].endTime
        /\ Len(pools[currentPoolId].participants) >= 2

\* C3: claim idempotence.  Once a reward has been transferred to a winner for a
\* pool, every further claimReward by that winner for that pool fails with
\* 'Reward already claimed', and the total transferred to any address for a
\* pool never exceeds the rewardAmount recorded for it.
C3_ClaimIdempotence ==
    \A p \in PoolIds, a \in Callers :
        /\ paid[p][a] > 0 => ClaimRewardResult(a, p) = "Reward already claimed"
        /\ paid[p][a] <= RecordedReward(p, a)

C3_Witness ==
    \E p \in PoolIds, a \in Callers :
        /\ paid[p][a] > 0
        /\ paid[p][a] = RecordedReward(p, a)
        /\ bal[Contract] >= RecordedReward(p, a)

\* C4: winner count (seed build).  A drawn pool has exactly WINNER_COUNT winner
\* records, pairwise distinct, each a participant of that pool, none the zero
\* address.
C4_WinnerCount ==
    \A p \in PoolIds :
        (variant = "seed" /\ Drawn(p)) =>
            /\ Len(pools[p].winners) = WINNER_COUNT
            /\ Cardinality(WinnerAddrs(p)) = WINNER_COUNT
            /\ WinnerAddrs(p) \subseteq Range(pools[p].participants)
            /\ ZeroAddr \notin WinnerAddrs(p)

C4_Witness ==
    \E p \in PoolIds :
        /\ variant = "seed"
        /\ Drawn(p)
        /\ Len(pools[p].participants) > WINNER_COUNT

\* C5: invalid proof.  On a pool whose seed handle is set and whose winners are
\* not drawn, the owner's drawWinners with a (value, proof) the verifier rejects
\* fails with 'Invalid decryption proof'; the pool is then still unrevealed,
\* without winners and without a fee transfer, and the owner's drawWinners with
\* the proof for the same handle succeeds.
C5_InvalidProof ==
    \A p \in PoolIds :
        SeedCommitted(p) =>
            /\ \A v \in SeedValues, proof \in ProofInputs :
                  DrawWinnersResult(Owner, p, v, proof) =
                      (IF proof = [handle |-> pools[p].randomSeedHandle,
                                   value |-> pools[p].encryptedRandomSeed]
                          /\ v = pools[p].encryptedRandomSeed
                       THEN OK ELSE "Invalid decryption proof")
            /\ ~pools[p].randomSeedRevealed
            /\ pools[p].winners = <<>>
            /\ feeLog[p] = <<>>

C5_Witness ==
    \E p \in PoolIds, v \in SeedValues :
        /\ SeedCommitted(p)
        /\ v # pools[p].encryptedRandomSeed
        /\ DrawWinnersResult(Owner, p, v,
               [handle |-> pools[p].randomSeedHandle,
                value |-> pools[p].encryptedRandomSeed]) = "Invalid decryption proof"

\* C6: in either build, the winners of a drawn pool were drawn from the value
\* committed for that pool (the encrypted seed, or the encrypted indices): the
\* value the operator supplied to the successful drawWinners is that value.
\* The index build records winners from any five indices the owner submits.
C6_DrawUsesCommittedRandomness ==
    \A p \in PoolIds : Drawn(p) => drawInput[p] = Committed(p)

\* C7: non-winner rejection.  On a drawn pool, claimReward by an address that is
\* not among the pool's winners fails with 'Not a winner', and nothing has ever
\* been transferred to it for that pool.
C7_NonWinnerRejection ==
    \A p \in PoolIds, a \in Callers :
        (Drawn(p) /\ a \notin WinnerAddrs(p)) =>
            /\ ClaimRewardResult(a, p) = "Not a winner"
            /\ paid[p][a] = 0

C7_Witness ==
    \E p \in PoolIds, a \in Addr :
        /\ Drawn(p)
        /\ a \in Range(pools[p].participants)
        /\ a \notin WinnerAddrs(p)
        /\ \E w \in WinnerAddrs(p) : paid[p][w] > 0

\* C8: minimum participants.  On a closed pool with fewer than WINNER_COUNT
\* participants the owner's generateRandomSeed (generateWinnerIndices in the
\* index build) fails with 'Not enough participants'; such a pool has no seed
\* handle, no encrypted indices and no winners.
C8_MinimumParticipants ==
    \A p \in PoolIds :
        (pools[p].isClosed /\ Len(pools[p].participants) < WINNER_COUNT) =>
            /\ variant = "seed" =>
                  GenerateRandomSeedResult(Owner, p) = "Not enough participants"
            /\ variant = "index" =>
                  GenerateWinnerIndicesResult(Owner, p) = "Not enough participants"
            /\ pools[p].randomSeedHandle = 0
            /\ ~pools[p].indicesGenerated
            /\ ~pools[p].winnersDrawn
            /\ pools[p].winners = <<>>

C8_Witness ==
    \E p \in PoolIds :
        /\ pools[p].isClosed
        /\ Len(pools[p].participants) = WINNER_COUNT - 1
        /\ now > pools[p].endTime

\* C9: the winners share 90% of the pool equally.  After a draw the rewardAmounts
\* sum to 90% of totalAmount, each is one WINNER_COUNT-th of that, and the
\* protocol fee is the other 10%.  The code pays each winner 18% of the 90%
\* left after the fee: 81% of the pool in all.
C9_WinnersShareNinetyPercent ==
    \A p \in PoolIds :
        Drawn(p) =>
            /\ RewardSum(p) * 100 = pools[p].totalAmount * 90
            /\ \A i \in 1..Len(pools[p].winners) :
                  pools[p].winners[i].rewardAmount * WINNER_COUNT * 100
                      = pools[p].totalAmount * 90
            /\ FeeTransferred(p) * 100 = pools[p].totalAmount * 10

\* C10: protocol fee.  A pool's fee is transferred in the step that draws its
\* winners and in no other: that step transfers floor(totalAmount * 10 / 100)
\* to the fee recipient configured in the state it starts from, and transfers
\* nothing to any caller; a drawn pool has exactly one fee transfer on record
\* and an undrawn pool none.
C10_FeeStep ==
    \A p \in PoolIds :
        (feeLog'[p] # feeLog[p] \/ (pools'[p].winnersDrawn /\ ~pools[p].winnersDrawn)) =>
            /\ ~pools[p].winnersDrawn
            /\ pools'[p].winnersDrawn
            /\ Len(pools'[p].winners) = WINNER_COUNT
            /\ feeLog'[p] = Append(feeLog[p],
                   [to |-> protocolFeeRecipient,
                    amount |-> (pools[p].totalAmount * 10) \div 100])
            /\ bal'[protocolFeeRecipient] =
                   bal[protocolFeeRecipient] + (pools[p].totalAmount * 10) \div 100
            /\ \A a \in Callers : bal'[a] = bal[a]
            /\ paid' = paid

C10_ProtocolFee ==
    /\ [](\A p \in PoolIds : Len(feeLog[p]) = (IF Drawn(p) THEN 1 ELSE 0))
    /\ [][C10_FeeStep]_vars

C10_Witness ==
    \E p \in PoolIds :
        /\ Drawn(p)
        /\ Len(feeLog[p]) = 1
        /\ feeLog[p][1].to = Recipient2
        /\ bal[Recipient2] = feeLog[p][1].amount
        /\ protocolFeeRecipient = Recipient1

\* C11: a claim pays the recorded reward.  A step that marks a winner record
\* claimed, or that transfers a reward, transfers to that winner exactly the
\* rewardAmount recorded for it, out of the contract's balance; and the winner
\* records of a drawn pool keep their addresses and rewardAmounts for ever.
C11_ClaimStep ==
    \A p \in PoolIds :
        /\ \A a \in Callers :
              (paid'[p][a] # paid[p][a]
                 \/ \E i \in 1..Len(pools[p].winners) :
                       /\ pools[p].winners[i].winnerAddress = a
                       /\ ~pools[p].winners[i].claimed
                       /\ pools'[p].winners[i].claimed) =>
                  /\ RecordedReward(p, a) > 0
                  /\ paid'[p][a] = paid[p][a] + RecordedReward(p, a)
                  /\ bal'[a] = bal[a] + RecordedReward(p, a)
                  /\ bal'[Contract] = bal[Contract] - RecordedReward(p, a)
        /\ Drawn(p) =>
              /\ Len(pools'[p].winners) = Len(pools[p].winners)
              /\ \A i \in 1..Len(pools[p].winners) :
                    /\ pools'[p].winners[i].rewardAmount = pools[p].winners[i].rewardAmount
                    /\ pools'[p].winners[i].winnerAddress = pools[p].winners[i].winnerAddress

C11_ClaimPaysRecordedReward == [][C11_ClaimStep]_vars

C11_Witness ==
    \E p \in PoolIds, a, b \in Addr :
        /\ a # b
        /\ Drawn(p)
        /\ paid[p][a] = RecordedReward(p, a) /\ paid[p][a] > 0
        /\ paid[p][b] = RecordedReward(p, b) /\ paid[p][b] > 0
        /\ bal[a] = InitBalance(a) - ENTRY_FEE + paid[p][a]

\* C12: re-entrancy safety of claimReward.  Whenever claimReward by a winner
\* would succeed, the same call re-entered from the callback of its token
\* transfer fails with 'Reward already claimed', because the record is marked
\* before the transfer; so no address is ever paid more than its recorded
\* reward, with or without re-entry.
C12_ReentrancySafety ==
    \A p \in PoolIds, a \in Callers :
        /\ ClaimRewardResult(a, p) = OK =>
              NestedClaimResult(a, p) = "Reward already claimed"
        /\ paid[p][a] \in {0, RecordedReward(p, a)}

C12_Witness ==
    \E p \in PoolIds, a, b \in Addr :
        /\ paid[p][a] > 0
        /\ ClaimRewardResult(b, p) = OK
        /\ bal[Contract] >= 2 * RecordedReward(p, b)

\* C13: atomic entry.  An enterPool whose fee transfer fails leaves the storage
\* exactly as it was, the startTime and endTime it assigns on a first entry
\* included.  Hence in every state a pool has a start and an end time only if
\* it has a participant, its counters agree with its participants list, and
\* hasEnteredPool and participantIndex describe exactly the listed addresses.
C13_AtomicEntry ==
    /\ \A a \in Addr :
          EnterPoolResult(a) = "ERC20: transfer amount exceeds balance" =>
              Rollback(pools, EnterPoolStarted(a)) = pools
    /\ \A p \in PoolIds :
          /\ (pools[p].startTime > 0) = (Len(pools[p].participants) > 0)
          /\ (pools[p].endTime > 0) = (Len(pools[p].participants) > 0)
          /\ pools[p].totalEntries = Len(pools[p].participants)
          /\ pools[p].totalAmount = ENTRY_FEE * Len(pools[p].participants)
          /\ \A a \in Callers :
                /\ hasEnteredPool[p][a] = (a \in Range(pools[p].participants))
                /\ hasEnteredPool[p][a] =>
                      pools[p].participants[participantIndex[p][a] + 1] = a
                /\ ~hasEnteredPool[p][a] => participantIndex[p][a] = 0

C13_Witness ==
    \E a \in Addr :
        /\ EnterPoolResult(a) = "ERC20: transfer amount exceeds balance"
        /\ pools[currentPoolId].startTime = 0
        /\ EnterPoolStarted(a)[currentPoolId].startTime = now
        /\ ~Fresh(a)

\* C14: forward-only lifecycle (seed build).  In every state a drawn pool has
\* its seed revealed, a pool with a revealed seed has a seed handle, a pool with
\* a seed handle is closed, and a closed pool has started; and no step resets
\* startTime, isClosed, the seed handle, randomSeedRevealed or winnersDrawn of
\* a pool once set.
C14_Chain ==
    \A p \in PoolIds :
        /\ variant = "seed" =>
              /\ pools[p].winnersDrawn => pools[p].randomSeedRevealed
              /\ pools[p].randomSeedRevealed => pools[p].randomSeedHandle # 0
              /\ pools[p].randomSeedHandle # 0 => pools[p].isClosed
        /\ pools[p].isClosed => pools[p].startTime > 0

C14_NoReset ==
    \A p \in PoolIds :
        /\ pools[p].startTime > 0 => pools'[p].startTime = pools[p].startTime
        /\ pools[p].isClosed => pools'[p].isClosed
        /\ pools[p].randomSeedHandle # 0 =>
              pools'[p].randomSeedHandle = pools[p].randomSeedHandle
        /\ pools[p].randomSeedRevealed => pools'[p].randomSeedRevealed
        /\ pools[p].winnersDrawn => pools'[p].winnersDrawn

C14_ForwardOnlyLifecycle == []C14_Chain /\ [][C14_NoReset]_vars

C14_Witness ==
    \E p \in PoolIds :
        /\ variant = "seed"
        /\ pools[p].winnersDrawn /\ pools[p].randomSeedRevealed
        /\ p # currentPoolId
        /\ pools[currentPoolId].isClosed = FALSE
        /\ pools[currentPoolId].startTime > 0

\* C15: closePool is open to any caller and idempotent-safe.  For every caller
\* and every existing pool that has started, closePool succeeds or fails with
\* 'Pool is still active', the already closed pool included.  The code admits
\* the owner only and rejects a closed pool with 'Pool already closed'.
C15_ClosePoolOpenToAll ==
    \A c \in Callers, id \in PoolIds :
        (id <= currentPoolId /\ pools[id].startTime > 0) =>
            ClosePoolResult(c, id) \in {OK, "Pool is still active"}

\* C16: close only after the deadline.  A step that sets a pool's isClosed is
\* taken at a time now >= that pool's endTime, on a pool that has started; and
\* closePool on an existing pool while now < endTime fails with 'Pool is still
\* active', whoever calls it.  The first half holds; a caller other than the
\* owner gets 'Only owner can call this function' instead.
C16_ClosingStep ==
    \A p \in PoolIds :
        (~pools[p].isClosed /\ pools'[p].isClosed) =>
            /\ pools[p].startTime > 0
            /\ now >= pools[p].endTime

C16_StillActive ==
    \A c \in Callers, id \in PoolIds :
        (id <= currentPoolId /\ now < pools[id].endTime) =>
            ClosePoolResult(c, id) = "Pool is still active"

C16_CloseOnlyAfterDeadline == [][C16_ClosingStep]_vars /\ []C16_StillActive

C16_ClosedAfterDeadline == [][C16_ClosingStep]_vars

\* C17: no late admission.  A step that adds a participant to a pool is taken
\* at a time startTime <= now < endTime of that pool, closed by closePool or
\* not; a pool's endTime, once set, never changes, so every listed participant
\* entered within [startTime, endTime); and from endTime on enterPool into the
\* current pool fails for every caller.
C17_AdmissionStep ==
    \A p \in PoolIds :
        /\ pools'[p].participants # pools[p].participants =>
              /\ pools'[p].startTime <= now
              /\ now < pools'[p].endTime
              /\ ~pools[p].isClosed
              /\ Len(pools'[p].participants) = Len(pools[p].participants) + 1
        /\ pools[p].endTime > 0 => pools'[p].endTime = pools[p].endTime

C17_Rejected ==
    \A a \in Addr :
        (pools[currentPoolId].startTime > 0 /\ now >= pools[currentPoolId].endTime) =>
            EnterPoolResult(a) = "Pool is closed"

C17_NoLateAdmission == [][C17_AdmissionStep]_vars /\ []C17_Rejected

C17_Witness ==
    \E a \in Addr :
        /\ ~hasEnteredPool[currentPoolId][a]
        /\ bal[a] >= ENTRY_FEE
        /\ pools[currentPoolId].startTime > 0
        /\ now >= pools[currentPoolId].endTime
        /\ ~pools[currentPoolId].isClosed
        /\ Len(pools[currentPoolId].participants) >= 2

\* C18: auto-close on admission.  When enterPool is called at or after the
\* current pool's endTime and that pool is not stored closed, the call leaves
\* the pool stored closed and the next pool current.  In the code the call
\* closes the pool, then fails require(!pool.isClosed) on the pool it has just
\* closed, and the revert undoes the close.
C18_AutoCloseOnAdmission ==
    \A a \in Addr :
        DeadlinePassed(pools[currentPoolId], now) =>
            /\ AfterEnterPool(a).pools[currentPoolId].isClosed
            /\ AfterEnterPool(a).cur = currentPoolId + 1

\* C19: auto-rollover and sequential ids.  currentPoolId starts at 0 and a step
\* leaves it or adds one to it; it adds one exactly when the current pool,
\* holding at least one entry, becomes closed, and the pool with the new id is
\* then pending (no start or end time, no participants, not closed, not drawn).
\* Participants are added to the current pool only, never removed from any
\* pool, and the ids above currentPoolId are untouched storage; every pool
\* below currentPoolId is closed with at least one entry and the current pool
\* is open.
Pending(pool) ==
    /\ pool.startTime = 0 /\ pool.endTime = 0
    /\ pool.participants = <<>> /\ pool.totalEntries = 0 /\ pool.totalAmount = 0
    /\ ~pool.isClosed /\ ~pool.winnersDrawn /\ pool.winners = <<>>

C19_RolloverStep ==
    /\ currentPoolId' \in {currentPoolId, currentPoolId + 1}
    /\ (currentPoolId' = currentPoolId + 1) =
          (~pools[currentPoolId].isClosed /\ pools'[currentPoolId].isClosed)
    /\ currentPoolId' = currentPoolId + 1 =>
          /\ pools[currentPoolId].totalEntries > 0
          /\ Pending(pools'[currentPoolId'])
    /\ \A p \in PoolIds :
          /\ pools'[p].participants # pools[p].participants =>
                /\ p = currentPoolId /\ p = currentPoolId'
                /\ SubSeq(pools'[p].participants, 1, Len(pools[p].participants))
                      = pools[p].participants
          /\ pools'[p].startTime # pools[p].startTime => pools[p].startTime = 0

C19_Ids ==
    \A p \in PoolIds :
        /\ p < currentPoolId => pools[p].isClosed /\ pools[p].totalEntries > 0
        /\ p = currentPoolId => ~pools[p].isClosed
        /\ p > currentPoolId => pools[p] = EmptyPool

C19_AutoRollover ==
    /\ currentPoolId = 0
    /\ [][C19_RolloverStep]_vars
    /\ []C19_Ids

C19_Witness ==
    /\ currentPoolId = MaxPoolId
    /\ Len(pools[currentPoolId].participants) > 0
    /\ \A p \in 0..(MaxPoolId - 1) : pools[p].isClosed
    /\ \E a \in Addr : hasEnteredPool[0][a] /\ hasEnteredPool[MaxPoolId][a]

C20_ZeroEntryState ==
    \A p \in PoolIds :
        (p <= currentPoolId /\ pools[p].totalEntries = 0) =>
            /\ p = currentPoolId
            /\ Pending(pools[p])
            /\ ClosePoolResult(Owner, p) = "Pool hasn't started yet"
            /\ AfterClosePool(Owner, p) = [pools |-> pools, cur |-> currentPoolId]
            /\ ~DeadlinePassed(pools[p], now)

C20_ZeroEntryStep ==
    \A p \in PoolIds :
        /\ (pools[p].totalEntries = 0 /\ pools'[p].totalEntries = 0) =>
              pools'[p] = pools[p]
        /\ (~pools[p].isClosed /\ pools'[p].isClosed) => pools[p].totalEntries > 0

C21_OperatorOnlyDraw ==
    \A c \in Callers \ {Owner}, id \in PoolIds :
        /\ GenerateRandomSeedResult(c, id) = "Only owner can call this function"
        /\ GenerateWinnerIndicesResult(c, id) = "Only owner can call this function"
        /\ \A v \in SeedValues, proof \in ProofInputs :
              DrawWinnersResult(c, id, v, proof) = "Only owner can call this function"
        /\ \A indices \in IndexInputs :
              DrawWinnersIndexResult(c, id, indices) = "Only owner can call this function"

C21_Witness ==
    \E p \in PoolIds, c \in Addr :
        /\ variant = "seed"
        /\ SeedCommitted(p)
        /\ c \in Range(pools[p].participants)
        /\ DrawWinnersResult(Owner, p, pools[p].encryptedRandomSeed,
               [handle |-> pools[p].randomSeedHandle,
                value |-> pools[p].encryptedRandomSeed]) = OK
        /\ DrawWinnersResult(c, p, pools[p].encryptedRandomSeed,
               [handle |-> pools[p].randomSeedHandle,
                value |-> pools[p].encryptedRandomSeed]) # OK

\* C22 as claimed: once a pool's seed handle is set, the owner's
\* generateRandomSeed for that pool fails with 'Random seed already generated'.
C22_AlreadyGenerated ==
    \A p \in PoolIds :
        pools[p].randomSeedHandle # 0 =>
            GenerateRandomSeedResult(Owner, p) = "Random seed already generated"

\* C22 as amended: once a pool's seed handle is set, the owner's
\* generateRandomSeed for that pool fails, with 'Random seed already generated'
\* until the winners are drawn and with 'Winners already drawn' afterwards; no
\* step changes the handle or the encrypted seed, and the value a draw was
\* made from is that encrypted seed.
C22_Rejected ==
    \A p \in PoolIds :
        /\ pools[p].randomSeedHandle # 0 =>
              GenerateRandomSeedResult(Owner, p) =
                  (IF pools[p].winnersDrawn THEN "Winners already drawn"
                   ELSE "Random seed already generated")
        /\ (variant = "seed" /\ Drawn(p)) =>
              /\ pools[p].randomSeedHandle # 0
              /\ drawInput[p] = <<pools[p].encryptedRandomSeed>>

C22_CommitmentStep ==
    \A p \in PoolIds :
        pools[p].randomSeedHandle # 0 =>
            /\ pools'[p].randomSeedHandle = pools[p].randomSeedHandle
            /\ pools'[p].encryptedRandomSeed = pools[p].encryptedRandomSeed

C22_SingleCommitment == []C22_Rejected /\ [][C22_CommitmentStep]_vars

C22_Witness ==
    \E p \in PoolIds :
        /\ SeedCommitted(p)
        /\ pools[p].encryptedRandomSeed = MaxSeed
        /\ GenerateRandomSeedResult(Owner, p) = "Random seed already generated"
        /\ p # currentPoolId

\* C23: determinism of selection (seed build).  In every state, whatever the
\* time, the fee recipient, the balances and the other pools, the stored seed
\* of a drawn pool is the expansion of its revealed value, its pool id and its
\* number of entries, and its winner sequence is the selection computed from
\* that seed and its participant sequence, in the same order.
C23_Determinism ==
    \A p \in PoolIds :
        (variant = "seed" /\ Drawn(p)) =>
            /\ pools[p].revealedRandomSeed =
                   Keccak3(drawInput[p][1], p, Len(pools[p].participants))
            /\ [i \in 1..Len(pools[p].winners) |-> pools[p].winners[i].winnerAddress]
                   = SelectWinners(pools[p].participants,
                                   Keccak3(drawInput[p][1], p, Len(pools[p].participants)))

C23_Witness ==
    \E p \in PoolIds :
        /\ variant = "seed"
        /\ Drawn(p)
        /\ Len(pools[p].participants) > WINNER_COUNT
        /\ now >= pools[p].endTime + POOL_DURATION
        /\ protocolFeeRecipient # feeLog[p][1].to
        /\ \E a \in Callers : paid[p][a] > 0

\* C24: the claimed flag is monotonic and bound to its winner.  No step takes a
\* winner record from claimed to unclaimed; a step that takes a record from
\* unclaimed to claimed pays that record's winnerAddress, which claimReward
\* does for its caller only, and changes no other record and nothing else of
\* the storage.
C24_ClaimedStep ==
    \A p \in PoolIds :
        \A i \in 1..Len(pools[p].winners) :
            /\ pools[p].winners[i].claimed =>
                  (Len(pools'[p].winners) >= i /\ pools'[p].winners[i].claimed)
            /\ (~pools[p].winners[i].claimed /\ pools'[p].winners[i].claimed) =>
                  /\ paid'[p][pools[p].winners[i].winnerAddress]
                        = paid[p][pools[p].winners[i].winnerAddress]
                          + pools[p].winners[i].rewardAmount
                  /\ \A a \in Callers \ {pools[p].winners[i].winnerAddress} :
                        \A q \in PoolIds : paid'[q][a] = paid[q][a]
                  /\ \A j \in 1..Len(pools[p].winners) :
                        j # i => pools'[p].winners[j] = pools[p].winners[j]
                  /\ \A q \in PoolIds \ {p} : pools'[q] = pools[q]
                  /\ UNCHANGED <<currentPoolId, hasEnteredPool, participantIndex,
                                  protocolFeeRecipient, feeLog, now>>

C24_ClaimedMonotonic == [][C24_ClaimedStep]_vars

C24_Witness ==
    \E p \in PoolIds :
        \E i, j \in 1..Len(pools[p].winners) :
            /\ pools[p].winners[i].claimed
            /\ ~pools[p].winners[j].claimed
            /\ paid[p][pools[p].winners[i].winnerAddress] > 0
            /\ paid[p][pools[p].winners[j].winnerAddress] = 0
            /\ i > j

\* C25: winners are written once.  A pool that is not drawn has no winner
\* record and a drawn pool has exactly WINNER_COUNT; on a drawn pool the
\* owner's drawWinners fails with 'Winners already drawn' whatever it submits;
\* and no step changes the address, share or reward of a winner record of a
\* drawn pool, or the number of its records.
C25_WrittenOnce ==
    \A p \in PoolIds :
        /\ ~Drawn(p) => pools[p].winners = <<>>
        /\ Drawn(p) =>
              /\ Len(pools[p].winners) = WINNER_COUNT
              /\ variant = "seed" =>
                    \A v \in SeedValues, proof \in ProofInputs :
                        DrawWinnersResult(Owner, p, v, proof) = "Winners already drawn"
              /\ variant = "index" =>
                    \A indices \in IndexInputs :
                        DrawWinnersIndexResult(Owner, p, indices) = "Winners already drawn"

C25_WinnersStep ==
    \A p \in PoolIds :
        Drawn(p) =>
            /\ Drawn(p)'
            /\ Len(pools'[p].winners) = Len(pools[p].winners)
            /\ \A i \in 1..Len(pools[p].winners) :
                  pools'[p].winners[i] =
                      [pools[p].winners[i] EXCEPT !.claimed = pools'[p].winners[i].claimed]

C25_WinnersWrittenOnce == []C25_WrittenOnce /\ [][C25_WinnersStep]_vars

C25_Witness ==
    \E p \in PoolIds :
        /\ variant = "index"
        /\ Drawn(p)
        /\ DrawWinnersIndexResult(Owner, p, <<4, 4, 4, 4, 4>>) = "Winners already drawn"
        /\ pools[p].winners[1].claimed
        /\ ~pools[p].winners[2].claimed

\* C26: reveal and draw are atomic (seed build).  In every state and for every
\* pool, randomSeedRevealed, winnersDrawn and 'the pool has WINNER_COUNT winner
\* records' are all true or all false; in either build winnersDrawn holds
\* exactly when the pool has WINNER_COUNT winner records.
C26_RevealDrawAtomic ==
    \A p \in PoolIds :
        /\ pools[p].winnersDrawn = (Len(pools[p].winners) = WINNER_COUNT)
        /\ variant = "seed" =>
              pools[p].randomSeedRevealed = pools[p].winnersDrawn

C26_Witness ==
    \E p \in PoolIds :
        /\ variant = "seed"
        /\ pools[p].randomSeedRevealed
        /\ pools[p].winnersDrawn
        /\ pools[p].revealedRandomSeed > 0
        /\ Len(pools[currentPoolId].participants) > 0
        /\ ~pools[currentPoolId].randomSeedRevealed

\* C27: entry accounting.  In every state and for every pool, totalAmount is
\* ENTRY_FEE times totalEntries, and totalEntries is the length of the
\* participants list and the number of addresses flagged in hasEnteredPool;
\* and a step that adds a participant takes ENTRY_FEE from that participant
\* and adds exactly ENTRY_FEE to the contract's balance.
C27_Accounting ==
    \A p \in PoolIds :
        /\ pools[p].totalAmount = ENTRY_FEE * pools[p].totalEntries
        /\ pools[p].totalEntries = Len(pools[p].participants)
        /\ pools[p].totalEntries = Cardinality({a \in Callers : hasEnteredPool[p][a]})

C27_EntryStep ==
    \A p \in PoolIds :
        Len(pools'[p].participants) > Len(pools[p].participants) =>
            LET a == pools'[p].participants[Len(pools'[p].participants)]
            IN  /\ bal'[Contract] = bal[Contract] + ENTRY_FEE
                /\ bal'[a] = bal[a] - ENTRY_FEE
                /\ bal'[a] >= 0
                /\ \A h \in Holders \ {a, Contract} : bal'[h] = bal[h]
                /\ pools'[p].totalEntries = pools[p].totalEntries + 1

C27_EntryAccounting == []C27_Accounting /\ [][C27_EntryStep]_vars

C27_Witness ==
    /\ currentPoolId > 0
    /\ pools[0].totalEntries = 3
    /\ pools[currentPoolId].totalEntries = 2
    /\ bal[Contract] = 5 * ENTRY_FEE
    /\ \E a \in Addr : bal[a] = 0

\* C28: queries do not transition state.  getPool reports isClosed exactly when
\* the pool is stored closed or it has started and now >= endTime, and reports
\* the other fields as stored; getPoolWinners and isWinner report the stored
\* winner records; and a step that is a call of one of them leaves the storage
\* as it is: the pool is not closed, no pool is created, currentPoolId stays.
C28_Reports ==
    \A id \in PoolIds :
        id <= currentPoolId =>
            /\ GetPool(id).isClosed =
                  (pools[id].isClosed
                     \/ (pools[id].startTime > 0 /\ now >= pools[id].endTime))
            /\ [GetPool(id) EXCEPT !.isClosed = pools[id].isClosed] = GetPoolStored(id)
            /\ Len(GetPoolWinners(id).winners) = Len(pools[id].winners)
            /\ \A a \in Callers : IsWinner(id, a)[1] = (a \in WinnerAddrs(id))

C28_ViewStep ==
    \A id \in PoolIds : View(id) => UNCHANGED <<storage, ledger>>

C28_QueriesDoNotTransition == []C28_Reports /\ [][C28_ViewStep]_vars

C28_Witness ==
    \E id \in PoolIds :
        /\ id = currentPoolId
        /\ GetPool(id).isClosed
        /\ ~pools[id].isClosed
        /\ Len(pools[id].participants) >= WINNER_COUNT
        /\ now >= pools[id].endTime + TickStep

\* C29: progress of a round.  With time advancing and the owner retrying
\* closePool, generateRandomSeed (generateWinnerIndices) and drawWinners with
\* the KMS proof, every pool that collected at least WINNER_COUNT participants
\* eventually has winnersDrawn; and once drawn, a winner who has not claimed
\* can claim at any block time, whatever happened in the other pools.  The
\* model follows a pool whose deadline lies within LastTime and whose successor
\* id is within MaxPoolId.
C29_Collected(p) ==
    /\ p <= currentPoolId
    /\ Len(pools[p].participants) >= WINNER_COUNT
    /\ pools[p].endTime <= LastTime

C29_ClaimOpen ==
    \A p \in PoolIds : \A a \in Callers :
        (p <= currentPoolId /\ Drawn(p) /\ a \in WinnerAddrs(p) /\ paid[p][a] = 0)
            => ClaimRewardResult(a, p) = OK

C29_Progress ==
    /\ \A p \in 0..(MaxPoolId - 1) : C29_Collected(p) ~> Drawn(p)
    /\ []C29_ClaimOpen

C29_Witness ==
    \E p \in PoolIds :
        /\ Drawn(p)
        /\ Len(pools[p].participants) >= WINNER_COUNT
        /\ now >= pools[p].endTime + 2 * TickStep
        /\ \E a, b \in WinnerAddrs(p) : paid[p][a] > 0 /\ ClaimRewardResult(b, p) = OK

\* C30: solvency.  In every reachable state the contract's token balance is at
\* least the sum of rewardAmount over the unclaimed winner records of all drawn
\* pools, so claimReward by a winner who has not claimed never fails on the
\* token transfer, whatever entries, draws, fee transfers and claims happened
\* in other pools.
C30_Unclaimed(p) ==
    SumSeq([i \in 1..Len(pools[p].winners) |->
              IF pools[p].winners[i].claimed THEN 0 ELSE pools[p].winners[i].rewardAmount])

C30_Owed ==
    SumSeq([i \in 1..(MaxPoolId + 1) |-> IF Drawn(i - 1) THEN C30_Unclaimed(i - 1) ELSE 0])

C31_CommittedClosed ==
    \A p \in PoolIds :
        (pools[p].randomSeedHandle # 0 \/ pools[p].indicesGenerated \/ Drawn(p))
            => pools[p].isClosed

C31_FrozenStep ==
    \A p \in PoolIds :
        pools[p].isClosed =>
            /\ pools'[p].isClosed
            /\ pools'[p].participants = pools[p].participants
            /\ pools'[p].totalEntries = pools[p].totalEntries
            /\ pools'[p].totalAmount = pools[p].totalAmount

C31_ParticipantsFrozen == []C31_CommittedClosed /\ [][C31_FrozenStep]_vars

C31_Witness ==
    \E p, q \in PoolIds :
        /\ Drawn(p)
        /\ Len(pools[p].participants) >= WINNER_COUNT
        /\ q = currentPoolId
        /\ pools[q].totalEntries > 0
        /\ pools[q].startTime >= pools[p].endTime

\* C32: exactly one open pool.  The pool currentPoolId is not stored closed;
\* every pool below it is stored closed and has at least one entry; a pool
\* above it has no recorded state, and every operation on it fails with
\* 'Pool does not exist'.
C32_NotCreated(p) ==
    /\ pools[p] = EmptyPool
    /\ \A a \in Callers : ~hasEnteredPool[p][a]
    /\ ClosePoolResult(Owner, p) = "Pool does not exist"
    /\ GenerateRandomSeedResult(Owner, p) = "Pool does not exist"
    /\ GenerateWinnerIndicesResult(Owner, p) = "Pool does not exist"
    /\ \A v \in SeedValues, proof \in KmsSignatures \cup {Forged} :
          DrawWinnersResult(Owner, p, v, proof) = "Pool does not exist"
    /\ \A indices \in IndexInputs :
          DrawWinnersIndexResult(Owner, p, indices) = "Pool does not exist"
    /\ \A a \in Callers : ClaimRewardResult(a, p) = "Pool does not exist"

C32_ExactlyOneOpenPool ==
    /\ currentPoolId \in PoolIds
    /\ ~pools[currentPoolId].isClosed
    /\ \A p \in PoolIds :
          /\ p < currentPoolId => pools[p].isClosed /\ pools[p].totalEntries >= 1
          /\ p > currentPoolId => C32_NotCreated(p)

C32_Witness ==
    /\ currentPoolId = 1
    /\ pools[0].isClosed
    /\ pools[1].totalEntries > 0
    /\ now >= pools[1].endTime
    /\ C32_NotCreated(2)

\* C33: the deadline is fixed by the first entry.  A pool either has
\* startTime = endTime = 0 and no participants, or has a participant and
\* endTime = startTime + POOL_DURATION; the step that adds the first
\* participant sets startTime to the block time; and a startTime or endTime
\* once set is changed by no later entry and by no other operation.
C33_Deadline ==
    \A p \in PoolIds :
        \/ /\ pools[p].startTime = 0
           /\ pools[p].endTime = 0
           /\ pools[p].participants = <<>>
        \/ /\ Len(pools[p].participants) >= 1
           /\ pools[p].startTime > 0
           /\ pools[p].endTime = pools[p].startTime + POOL_DURATION

C33_DeadlineStep ==
    \A p \in PoolIds :
        /\ (pools[p].participants = <<>> /\ pools'[p].participants # <<>>)
              => pools'[p].startTime = now
        /\ pools[p].startTime > 0
              => /\ pools'[p].startTime = pools[p].startTime
                 /\ pools'[p].endTime = pools[p].endTime

C33_DeadlineFixedByFirstEntry == []C33_Deadline /\ [][C33_DeadlineStep]_vars

C33_Witness ==
    \E p \in PoolIds :
        /\ Len(pools[p].participants) >= 2
        /\ pools[p].startTime > TickStep
        /\ pools[p].isClosed
        /\ now > pools[p].endTime

\* C34: the fees of an under-subscribed pool stay locked.  For a pool stored
\* closed with between 1 and WINNER_COUNT - 1 participants there is no
\* randomness, draw, fee or reward path: every such call by the owner fails,
\* nothing of its totalAmount has left the contract, and the contract balance
\* is at least its totalAmount plus the unclaimed rewards of all drawn pools.
C34_UnderSubscribed(p) ==
    /\ pools[p].isClosed
    /\ pools[p].totalEntries >= 1
    /\ pools[p].totalEntries < WINNER_COUNT

C34_NoPath(p) ==
    /\ ~Drawn(p)
    /\ pools[p].winners = <<>>
    /\ FeeTransferred(p) = 0
    /\ \A a \in Callers : paid[p][a] = 0 /\ ClaimRewardResult(a, p) = "Winners not drawn yet"
    /\ variant = "seed" =>
          /\ GenerateRandomSeedResult(Owner, p) = "Not enough participants"
          /\ \A v \in SeedValues, proof \in KmsSignatures \cup {Forged} :
                DrawWinnersResult(Owner, p, v, proof) = "Not enough participants"
    /\ variant = "index" =>
          /\ GenerateWinnerIndicesResult(Owner, p) = "Not enough participants"
          /\ \A indices \in IndexInputs :
                DrawWinnersIndexResult(Owner, p, indices) = "Indices not generated"

C34_FeesStayLocked ==
    \A p \in PoolIds :
        C34_UnderSubscribed(p) =>
            /\ C34_NoPath(p)
            /\ pools[p].totalAmount = pools[p].totalEntries * ENTRY_FEE
            /\ bal[Contract] >= pools[p].totalAmount + C30_Owed

C34_Witness ==
    \E p, q \in PoolIds :
        /\ C34_UnderSubscribed(p)
        /\ now > pools[p].endTime
        /\ Drawn(q)
        /\ \E a \in WinnerAddrs(q) : paid[q][a] > 0
        /\ C30_Unclaimed(q) > 0

\* C35: index variant selection handles duplicates.  For every participant
\* count n with 5 <= n <= 65535 and every array of 5 uint16 indices,
\* _selectUniqueWinners returns without overflow or revert, and what it returns
\* is 5 pairwise distinct addresses, each one of the pool's participants.
C35_SelectionHandlesDuplicates ==
    selection.returned =>
        /\ selection.winners # Panicked
        /\ Len(selection.winners) = WINNER_COUNT
        /\ NoDuplicates(selection.winners)
        /\ \A i \in 1..Len(selection.winners) : selection.winners[i] \in 1..selection.n

\* C36: the index variant rejects a wrong index count without side effects.
\* On a closed, undrawn pool whose indices were generated, drawWinners with an
\* array whose length is not WINNER_COUNT fails with 'Invalid indices count';
\* the pool stays undrawn with no winners and no fee transferred, drawWinners
\* with exactly WINNER_COUNT indices still succeeds on it, and every draw that
\* does happen was made with WINNER_COUNT indices.
C36_Awaiting(p) ==
    /\ variant = "index"
    /\ p <= currentPoolId
    /\ pools[p].isClosed
    /\ pools[p].indicesGenerated
    /\ ~Drawn(p)

C36_Rejects ==
    \A p \in PoolIds :
        C36_Awaiting(p) =>
            /\ \A indices \in IndexInputs :
                  IF Len(indices) = WINNER_COUNT
                  THEN DrawWinnersIndexResult(Owner, p, indices) = OK
                  ELSE DrawWinnersIndexResult(Owner, p, indices) = "Invalid indices count"
            /\ pools[p].winners = <<>>
            /\ FeeTransferred(p) = 0

C36_DrawStep ==
    \A p \in PoolIds :
        (variant = "index" /\ ~Drawn(p) /\ Drawn(p)') =>
            /\ Len(drawInput'[p]) = WINNER_COUNT
            /\ Len(pools'[p].winners) = WINNER_COUNT
            /\ FeeTransferred(p)' = ProtocolFee(pools[p].totalAmount)

C36_WrongCountRejected == []C36_Rejects /\ [][C36_DrawStep]_vars

C36_Witness ==
    \E p \in PoolIds :
        /\ C36_Awaiting(p)
        /\ \E indices \in IndexInputs :
              /\ Len(indices) # WINNER_COUNT
              /\ DrawWinnersIndexResult(Owner, p, indices) = "Invalid indices count"
        /\ bal[Contract] = pools[p].totalAmount

\* C40: the FHEVM status follows the wallet connection.  In every state in
\* which the wallet is disconnected and the connection effect has run for that
\* disconnect, fhevmStatus is 'idle', whatever initialisations started by
\* earlier connections have completed since.
C40_StatusFollowsConnection ==
    (~isConnected /\ effectDep = isConnected) => fhevmStatus = "idle"
\* ------------------------------------------------------------------ C37
\* C37: the calls one handleDrawWinners invocation makes are, in this order,
\* generateRandomSeed, getEncryptedRandomSeed, publicDecryptWithProof and
\* drawWinners, all for the same pool id; a call is made only when every call
\* before it succeeded, so nothing follows the first failure; and drawWinners
\* is called only with a non-zero handle and the decryption proof of that handle.
C37_DrawFlowOrdered ==
    /\ Len(issued) <= Len(DrawSteps)
    /\ \A k \in 1..Len(issued) :
          /\ issued[k].op = DrawSteps[k]
          /\ issued[k].poolId = issued[1].poolId
          /\ k < Len(issued) => issued[k].ok
          /\ issued[k].op = "drawWinners" =>
                /\ issued[k].handle # 0
                /\ issued[k].proof # NoProof
                /\ issued[k].proof.handle = issued[k].handle
    /\ run.handler = "draw" /\ run.step > 0 => run.step = Len(issued) + 1

\* A draw completed through the handler: four successful calls and the pool drawn.
C37_Witness ==
    /\ Len(issued) = 4
    /\ issued[4].ok
    /\ AlreadyDrawn(pools[issued[4].poolId])
    /\ run.handler = "none"

\* ------------------------------------------------------------------ C38
\* The latest handleDrawWinners invocation ended in catch after its
\* generateRandomSeed transaction was confirmed, and the pool is still undrawn.
C38_FailedAfterSeed ==
    /\ run.handler = "none"
    /\ Len(issued) >= 2
    /\ issued[1].ok
    /\ ~issued[Len(issued)].ok
    /\ ~AlreadyDrawn(pools[issued[1].poolId])

\* C38: after an invocation of handleDrawWinners failed following its
\* confirmed generateRandomSeed, another invocation for the same pool can
\* complete the draw: its first call, generateRandomSeed on that pool by the
\* owner, is accepted by the contract.
C38_DrawRetryable ==
    C38_FailedAfterSeed => GenerateRandomSeedResult(Owner, issued[1].poolId) = OK

\* ------------------------------------------------------------------ C39
\* The toasts of type 'loading' that stay until removeToast is called.
C39_LoadingToasts == {k \in 1..Len(toasts) : toasts[k].type = "loading"}

====
